---------------------------- MODULE Spec2Model ----------------------------
(***************************************************************************)
(* A model of ext4rs: the ext4 driver of src/src (lib.rs, inode.rs,        *)
(* extent.rs, directory.rs, file.rs, bitmap.rs, superblock.rs,             *)
(* block_group.rs) over a block device.                                    *)
(*                                                                         *)
(* Byte buffers.  A buffer of the code (a Vec<u8>, a block) is modelled    *)
(* byte for byte as the finite map from the offsets of its NON-ZERO bytes  *)
(* to their values; every offset outside the map holds 0.  The length of   *)
(* a buffer is kept beside the map where the code reads it (a Buf record); *)
(* a device block always has the length of the device's block size.        *)
(*                                                                         *)
(* Results.  An operation of the code returns Ext4Result<T> or panics.     *)
(* The model's result record is [st, err, v]: st = "ok" with the value v,  *)
(* st = "err" with the Ext4Error err, or st = "panic" with the Rust panic  *)
(* in err.  Operations that write carry the device after the call in dev.  *)
(***************************************************************************)
EXTENDS Integers, Sequences, FiniteSets, TLC

VARIABLES
    overflow_checks, \* build profile: TRUE = arithmetic overflow panics
    device,          \* Ext4FileSystem.device: the block device
    superblock,      \* Ext4FileSystem.superblock
    block_groups,    \* Ext4FileSystem.block_groups
    mount_options,   \* Ext4FileSystem.mount_options
    mounted,         \* Ext4FileSystem::new returned Ok
    file,            \* a File { inode, position }
    iter,            \* a DirectoryIterator { data, offset } and its items
    bitmap,          \* a Bitmap { data, size }
    journal,         \* a Journal and the static COUNTER of journal.rs
    ret,             \* what the last operation returned
    hist,            \* history of the run the claims speak about
    nops             \* number of operations performed

vars == <<overflow_checks, device, superblock, block_groups, mount_options,
          mounted, file, iter, bitmap, journal, ret, hist, nops>>

fsVars == <<overflow_checks, device, superblock, block_groups, mount_options,
            mounted>>

-----------------------------------------------------------------------------
(* Results *)

Ok(v) == [st |-> "ok", err |-> "", v |-> v]

Err(e) == [st |-> "err", err |-> e, v |-> 0]

Panic(why) == [st |-> "panic", err |-> why, v |-> 0]

IsOk(r) == r.st = "ok"

\* a failed result carried on as the result of the caller (the ? operator)
Fail(r) == [st |-> r.st, err |-> r.err, v |-> 0]

-----------------------------------------------------------------------------
(* Integers *)

Min(a, b) == IF a < b THEN a ELSE b

Max(a, b) == IF a > b THEN a ELSE b

RECURSIVE Pow2(_)
Pow2(n) == IF n = 0 THEN 1 ELSE 2 * Pow2(n - 1)

RECURSIVE BitAnd(_, _)
BitAnd(a, b) ==
    IF a = 0 \/ b = 0 THEN 0
    ELSE ((a % 2) * (b % 2)) + 2 * BitAnd(a \div 2, b \div 2)

RECURSIVE BitOr(_, _)
BitOr(a, b) ==
    IF a = 0 THEN b
    ELSE IF b = 0 THEN a
    ELSE (IF (a % 2) + (b % 2) > 0 THEN 1 ELSE 0) + 2 * BitOr(a \div 2, b \div 2)

\* (value + 3) & !3
Align4(n) == ((n + 3) \div 4) * 4

\* ceil(a / b), the code's (a + b - 1) / b
CeilDiv(a, b) == (a + b - 1) \div b

-----------------------------------------------------------------------------
(* Byte buffers *)

EmptyBytes == [o \in {} |-> 0]

\* data[o]
Byte(m, o) == IF o \in DOMAIN m THEN m[o] ELSE 0

\* little-endian reads: (data[o] as u32) | (data[o+1] as u32) << 8 | ...
read_u8(m, o) == Byte(m, o)

read_u16(m, o) == Byte(m, o) + 256 * Byte(m, o + 1)

read_u32(m, o) ==
    Byte(m, o) + 256 * Byte(m, o + 1) + 65536 * Byte(m, o + 2)
        + 16777216 * Byte(m, o + 3)

\* byte k of the little-endian image of value
LeByte(value, k) == (value \div Pow2(8 * k)) % 256

\* data[off .. off + len) := src[0 .. len)
Splice(m, off, len, src) ==
    LET keep == {o \in DOMAIN m : o < off \/ o >= off + len}
        put  == {off + k : k \in {x \in DOMAIN src : x < len}}
    IN  [o \in keep \cup put |-> IF o \in put THEN src[o - off] ELSE m[o]]

\* data[off .. off + len), as a buffer of its own
Slice(m, off, len) ==
    [k \in {o - off : o \in {x \in DOMAIN m : x >= off /\ x < off + len}}
        |-> m[k + off]]

\* the little-endian image of value in n bytes
LeBytes(value, n) ==
    [k \in {x \in 0 .. n - 1 : LeByte(value, x) # 0} |-> LeByte(value, k)]

\* little-endian writes
write_u8(m, o, value) == Splice(m, o, 1, LeBytes(value, 1))

write_u16(m, o, value) == Splice(m, o, 2, LeBytes(value, 2))

write_u32(m, o, value) == Splice(m, o, 4, LeBytes(value, 4))

\* a Vec<u8>: its length and its bytes
Buf(len, m) == [len |-> len, m |-> m]

EmptyBuf == Buf(0, EmptyBytes)

\* the bytes of a sequence of byte values
SeqBytes(s) == [o \in {i - 1 : i \in {j \in DOMAIN s : s[j] # 0}} |-> s[o + 1]]

\* data[off .. off + len) as a sequence of byte values
BytesSeq(m, off, len) == [i \in 1 .. len |-> Byte(m, off + i - 1)]

\* vec.extend_from_slice(&slice[..len])
Extend(buf, m, len) == Buf(buf.len + len, Splice(buf.m, buf.len, len, m))

\* String::from_utf8 accepts the bytes.  Bytes below 0x80 are one-byte
\* characters; the inputs draw bytes from 0x80 up only from 0xF8..0xFF,
\* which no UTF-8 sequence contains.
Utf8Valid(s) == \A i \in DOMAIN s : s[i] < 128

-----------------------------------------------------------------------------
(* directory.rs *)

\* DirectoryEntry::from_bytes(data), data a slice of len bytes
DirectoryEntry_from_bytes(data, len) ==
    IF len < 8 THEN Err("InvalidInput")
    ELSE
        LET ino       == read_u32(data, 0)
            rec_len   == read_u16(data, 4)
            name_len  == read_u8(data, 6)
            file_type == IF len > 7 THEN read_u8(data, 7) ELSE 0
            name      == BytesSeq(data, 8, name_len)
        IN  IF len < 8 + name_len THEN Err("InvalidInput")
            ELSE IF ~Utf8Valid(name) THEN Err("InvalidInput")
            ELSE Ok([ino |-> ino, rec_len |-> rec_len, name_len |-> name_len,
                     file_type |-> file_type, name |-> name])

\* Iterator::next returned None, the iterator left at offset
IterNone(offset) == [some |-> FALSE, item |-> Err(""), offset |-> offset]

\* a next() that returns a deleted entry like any other (a variant the
\* iterator is compared with)
RECURSIVE next_yielding_deleted(_, _)
next_yielding_deleted(data, offset) ==
    IF offset >= data.len THEN IterNone(offset)
    ELSE
        LET entry_len == data.len - offset
            rec_len   == read_u16(data.m, offset + 4)
        IN  IF entry_len < 8 \/ rec_len = 0 \/ entry_len < rec_len
            THEN IterNone(offset)
            ELSE [some   |-> TRUE,
                  item   |-> DirectoryEntry_from_bytes(
                                 Slice(data.m, offset, rec_len), rec_len),
                  offset |-> offset + rec_len]

\* <DirectoryIterator as Iterator>::next with self.offset = offset:
\* [some, item, offset]: Some(item) or None, and self.offset afterwards
RECURSIVE DirectoryIterator_next(_, _)
DirectoryIterator_next(data, offset) ==
    IF offset >= data.len THEN IterNone(offset)
    ELSE
        LET entry_len == data.len - offset
            ino       == read_u32(data.m, offset)
            rec_len   == read_u16(data.m, offset + 4)
        IN  IF entry_len < 8 THEN IterNone(offset)
            ELSE IF ino = 0 THEN
                IF rec_len = 0 THEN IterNone(offset)
                ELSE DirectoryIterator_next(data, offset + rec_len)
            ELSE IF rec_len = 0 THEN IterNone(offset)
            ELSE IF entry_len < rec_len THEN IterNone(offset)
            ELSE [some   |-> TRUE,
                  item   |-> DirectoryEntry_from_bytes(
                                 Slice(data.m, offset, rec_len), rec_len),
                  offset |-> offset + rec_len]

\* Directory::from_bytes: the entries the iterator yields as Ok, without
\* those of inode 0 or of an empty name; an Err item is skipped
RECURSIVE DirCollect(_, _)
DirCollect(data, offset) ==
    LET Keep(n) ==
            IF ~n.some THEN <<>>
            ELSE IF IsOk(n.item) /\ n.item.v.ino # 0 /\ n.item.v.name # <<>>
                 THEN <<n.item.v>> \o DirCollect(data, n.offset)
                 ELSE DirCollect(data, n.offset)
    IN  Keep(DirectoryIterator_next(data, offset))

Directory_from_bytes(data) == Ok(DirCollect(data, 0))

\* Directory::find_entry
find_entry(entries, name) ==
    LET hits == {i \in DOMAIN entries : entries[i].name = name}
    IN  IF hits = {} THEN [some |-> FALSE, entry |-> 0]
        ELSE [some  |-> TRUE,
              entry |-> entries[CHOOSE i \in hits : \A j \in hits : i <= j]]

\* the block size Directory::to_bytes assumes
DirToBytesBlockSize == 4096

\* Directory::entry_to_bytes_with_rec_len: header, name, zero padding up
\* to rec_len
entry_to_bytes_with_rec_len(entry, rec_len) ==
    LET head == write_u8(write_u8(write_u16(write_u32(EmptyBytes, 0, entry.ino),
                    4, rec_len), 6, entry.name_len), 7, entry.file_type)
        body == Splice(head, 8, Len(entry.name), SeqBytes(entry.name))
    IN  Buf(Max(8 + Len(entry.name), rec_len), body)

RECURSIVE SumSeq(_)
SumSeq(s) == IF s = <<>> THEN 0 ELSE Head(s) + SumSeq(Tail(s))

\* the loop of Directory::to_bytes from entry i on
RECURSIVE DirToBytesFrom(_, _, _, _)
DirToBytesFrom(entries, entry_sizes, i, data) ==
    IF i > Len(entries) THEN data
    ELSE
        LET total_size == SumSeq(entry_sizes)
            rec_len ==
                IF i < Len(entry_sizes) THEN entry_sizes[i]
                ELSE IF total_size > DirToBytesBlockSize THEN entry_sizes[i]
                ELSE DirToBytesBlockSize - (total_size - entry_sizes[i])
            entry_data == entry_to_bytes_with_rec_len(entries[i], rec_len)
        IN  DirToBytesFrom(entries, entry_sizes, i + 1,
                           Extend(data, entry_data.m, entry_data.len))

\* Directory::to_bytes
Directory_to_bytes(entries) ==
    IF entries = <<>> THEN Ok(EmptyBuf)
    ELSE
        LET entry_sizes ==
                [i \in DOMAIN entries |-> Align4(8 + Len(entries[i].name))]
        IN  Ok(DirToBytesFrom(entries, entry_sizes, 1, EmptyBuf))

-----------------------------------------------------------------------------
(* The block device (tests/common.rs, MockBlockDevice).  A device is        *)
(* [block_size, num_blocks, data]: data maps the numbers of the blocks     *)
(* that hold a non-zero byte to their bytes.                               *)

\* the bytes of block block_id
DevBlock(dev, block_id) ==
    IF block_id \in DOMAIN dev.data THEN dev.data[block_id] ELSE EmptyBytes

\* device.read_block(block_id, buf), buf of one block
device_read_block(dev, block_id) ==
    IF block_id >= dev.num_blocks THEN Err("Invalid block ID")
    ELSE Ok(DevBlock(dev, block_id))

\* the device after data[offset..end].copy_from_slice(buf)
DevPut(dev, block_id, m) ==
    LET keep == (DOMAIN dev.data \ {block_id})
                    \cup (IF m = EmptyBytes THEN {} ELSE {block_id})
    IN  [dev EXCEPT !.data =
            [b \in keep |-> IF b = block_id THEN m ELSE dev.data[b]]]

\* device.write_block(block_id, buf), buf of one block
device_write_block(dev, block_id, m) ==
    IF block_id >= dev.num_blocks
    THEN [st |-> "err", err |-> "Invalid block ID", v |-> 0, dev |-> dev]
    ELSE [st |-> "ok", err |-> "", v |-> 0, dev |-> DevPut(dev, block_id, m)]

-----------------------------------------------------------------------------
(* superblock.rs, block_group.rs *)

\* 1024 << log: a shift by 32 or more panics where overflow is checked and
\* is taken modulo 32 where it is not; the bits shifted out are lost
Shl1024(log, oc) ==
    IF log >= 32 /\ oc THEN Panic("attempt to shift left with overflow")
    ELSE IF log % 32 >= 22 THEN Ok(0)
    ELSE Ok(1024 * Pow2(log % 32))

\* SuperBlock::from_bytes
SuperBlock_from_bytes(data, len, oc) ==
    IF len < 1024 THEN Err("InvalidInput")
    ELSE
        LET log_block_size   == read_u32(data, 24)
            log_cluster_size == read_u32(data, 28)
            block_size       == Shl1024(log_block_size, oc)
            cluster_size     == IF log_cluster_size > 0
                                THEN Shl1024(log_cluster_size, oc) ELSE block_size
        IN  IF ~IsOk(block_size) THEN block_size
            ELSE IF ~IsOk(cluster_size) THEN cluster_size
            ELSE Ok([inodes_count      |-> read_u32(data, 0),
                     \* blocks_count_hi << 32 | blocks_count_lo; the
                     \* superblocks of the model have the high word 0
                     blocks_count      |-> read_u32(data, 4),
                     free_blocks_count |-> read_u32(data, 12),
                     free_inodes_count |-> read_u32(data, 16),
                     first_data_block  |-> read_u32(data, 20),
                     log_block_size    |-> log_block_size,
                     blocks_per_group  |-> read_u32(data, 32),
                     inodes_per_group  |-> read_u32(data, 40),
                     magic             |-> read_u16(data, 56),
                     state             |-> read_u16(data, 58),
                     rev_level         |-> read_u32(data, 76),
                     inode_size        |-> read_u16(data, 88),
                     feature_compat    |-> read_u32(data, 92),
                     feature_incompat  |-> read_u32(data, 96),
                     feature_ro_compat |-> read_u32(data, 100),
                     block_size        |-> block_size.v,
                     cluster_size      |-> cluster_size.v])

\* SuperBlock::read_from_device: the 1024 bytes at byte offset 1024
read_from_device(dev, oc) ==
    LET block_size      == dev.block_size
        start_block     == 1024 \div block_size
        offset_in_block == 1024 % block_size
        first           == device_read_block(dev, start_block)
        to_copy         == Min(1024, block_size - offset_in_block)
        head            == Slice(first.v, offset_in_block, to_copy)
        second          == device_read_block(dev, start_block + 1)
    IN  IF ~IsOk(first) THEN Err("IoError")
        ELSE IF to_copy < 1024 THEN
            IF ~IsOk(second) THEN Err("IoError")
            ELSE SuperBlock_from_bytes(
                     Splice(head, to_copy, 1024 - to_copy, second.v), 1024, oc)
        ELSE SuperBlock_from_bytes(head, 1024, oc)

\* SuperBlock::validate
validate(sb) ==
    IF sb.magic # 61267 THEN Err("InvalidMagic")
    ELSE IF sb.block_size # 1024 /\ sb.block_size # 2048 /\ sb.block_size # 4096
    THEN Err("InvalidState")
    ELSE Ok(0)

\* BlockGroupDescriptor::from_bytes
BlockGroupDescriptor_from_bytes(data, len) ==
    IF len < 32 THEN Err("InvalidInput")
    ELSE Ok([block_bitmap      |-> read_u32(data, 0),
             inode_bitmap      |-> read_u32(data, 4),
             inode_table       |-> read_u32(data, 8),
             free_blocks_count |-> read_u16(data, 12),
             free_inodes_count |-> read_u16(data, 14),
             used_dirs_count   |-> read_u16(data, 16),
             flags             |-> read_u16(data, 18)])

\* the descriptor loop of read_block_groups from descriptor block i on
RECURSIVE ReadDescBlocks(_, _, _, _, _, _)
ReadDescBlocks(dev, sb, i, desc_blocks, groups_count, descriptors) ==
    IF i >= desc_blocks THEN Ok(descriptors)
    ELSE
        LET desc_size       == IF sb.rev_level >= 1 THEN 64 ELSE 32
            blocks_per_desc == sb.block_size \div desc_size
            block == IF sb.first_data_block = 0 THEN 1 + i
                     ELSE sb.first_data_block + 1 + i
            buf   == device_read_block(dev, block)
            base  == i * blocks_per_desc
            n     == Min(blocks_per_desc, groups_count - base)
            descs == [j \in 1 .. n |->
                        BlockGroupDescriptor_from_bytes(
                            Slice(buf.v, (j - 1) * desc_size, desc_size),
                            desc_size).v]
        IN  IF ~IsOk(buf) THEN Err("IoError")
            ELSE ReadDescBlocks(dev, sb, i + 1, desc_blocks, groups_count,
                                descriptors \o descs)

\* Ext4FileSystem::read_block_groups
read_block_groups(dev, sb) ==
    IF sb.blocks_count # 0 /\ sb.blocks_per_group = 0
    THEN Panic("attempt to divide by zero")
    ELSE
        LET groups_count ==
                IF sb.blocks_count = 0 THEN 0
                ELSE Max(CeilDiv(sb.blocks_count, sb.blocks_per_group), 1)
            desc_size       == IF sb.rev_level >= 1 THEN 64 ELSE 32
            blocks_per_desc == sb.block_size \div desc_size
            desc_blocks     == CeilDiv(groups_count, blocks_per_desc)
        IN  ReadDescBlocks(dev, sb, 0, desc_blocks, groups_count, <<>>)

\* Ext4FileSystem::new: the superblock and the descriptors of the mount
new(dev, oc) ==
    LET sb     == read_from_device(dev, oc)
        valid  == validate(sb.v)
        groups == read_block_groups(dev, sb.v)
    IN  IF ~IsOk(sb) THEN sb
        ELSE IF ~IsOk(valid) THEN valid
        ELSE IF ~IsOk(groups) THEN groups
        ELSE Ok([superblock |-> sb.v, block_groups |-> groups.v])

-----------------------------------------------------------------------------
(* inode.rs: the inode record and its on-disk image *)

\* InodeMode bits
IFDIR == 16384

IFREG == 32768

DEFAULT_FILE == 33188

DEFAULT_DIR == 16877

IFMT == 61440

IFIFO == 4096

IFCHR == 8192

IFBLK == 24576

IFLNK == 40960

IFSOCK == 49152

\* mode.contains(InodeMode::IFDIR)
contains_IFDIR(mode) == BitAnd(mode, IFDIR) = IFDIR

\* the bytes holding the fields <<offset, width, value>>
PutFields(fields) ==
    LET cells == UNION {{<<fields[i][1] + k, LeByte(fields[i][3], k)>> :
                            k \in 0 .. fields[i][2] - 1} : i \in DOMAIN fields}
        nz    == {c \in cells : c[2] # 0}
    IN  [o \in {c[1] : c \in nz} |-> (CHOOSE c \in nz : c[1] = o)[2]]

\* Inode::from_bytes; sizes stay below 2^31, the high word of a size is
\* kept in size_high
Inode_from_bytes(data, len, ino) ==
    IF len < 128 THEN Err("InvalidInput")
    ELSE
        LET ext == len >= 156
        IN  Ok([ino         |-> ino,
                mode        |-> read_u16(data, 0),
                uid         |-> read_u16(data, 2),
                size        |-> read_u32(data, 4),
                atime       |-> read_u32(data, 8),
                ctime       |-> read_u32(data, 12),
                mtime       |-> read_u32(data, 16),
                dtime       |-> read_u32(data, 20),
                gid         |-> read_u16(data, 24),
                links_count |-> read_u16(data, 26),
                blocks      |-> read_u32(data, 28),
                flags       |-> read_u32(data, 32),
                version     |-> read_u32(data, 36),
                block       |-> [i \in 0 .. 14 |-> read_u32(data, 40 + i * 4)],
                generation  |-> read_u32(data, 100),
                file_acl    |-> read_u32(data, 104),
                dir_acl     |-> read_u32(data, 108),
                faddr       |-> read_u32(data, 112),
                extra_isize |-> read_u16(data, 116),
                checksum    |-> read_u16(data, 118),
                ctime_extra |-> IF ext THEN read_u32(data, 120) ELSE 0,
                mtime_extra |-> IF ext THEN read_u32(data, 124) ELSE 0,
                atime_extra |-> IF ext THEN read_u32(data, 128) ELSE 0,
                crtime      |-> IF ext THEN read_u32(data, 132) ELSE 0,
                crtime_extra |-> IF ext THEN read_u32(data, 136) ELSE 0,
                size_high   |-> IF ext THEN read_u32(data, 140) ELSE 0,
                file_acl_high |-> IF ext THEN read_u32(data, 144) ELSE 0,
                obso_faddr  |-> IF ext THEN read_u32(data, 148) ELSE 0,
                projid      |-> IF len >= 160 THEN read_u32(data, 152) ELSE 0,
                faddr_ext   |-> IF len >= 160 THEN read_u32(data, 156) ELSE 0])

\* Inode::new
Inode_new(ino) ==
    [ino |-> ino, mode |-> IFREG, uid |-> 0, size |-> 0, atime |-> 0,
     ctime |-> 0, mtime |-> 0, dtime |-> 0, gid |-> 0, links_count |-> 1,
     blocks |-> 0, flags |-> 0, version |-> 0, block |-> [i \in 0 .. 14 |-> 0],
     generation |-> 0, file_acl |-> 0, dir_acl |-> 0, faddr |-> 0,
     extra_isize |-> 0, checksum |-> 0, ctime_extra |-> 0, mtime_extra |-> 0,
     atime_extra |-> 0, crtime |-> 0, crtime_extra |-> 0, size_high |-> 0,
     file_acl_high |-> 0, obso_faddr |-> 0, projid |-> 0, faddr_ext |-> 0]

\* the length of the image Inode::to_bytes returns
InodeImageLen == 256

\* Inode::to_bytes: always InodeImageLen bytes
Inode_to_bytes(inode) ==
    PutFields(<<
        <<0, 2, inode.mode>>, <<2, 2, inode.uid>>, <<4, 4, inode.size>>,
        <<8, 4, inode.atime>>, <<12, 4, inode.ctime>>, <<16, 4, inode.mtime>>,
        <<20, 4, inode.dtime>>, <<24, 2, inode.gid>>,
        <<26, 2, inode.links_count>>, <<28, 4, inode.blocks>>,
        <<32, 4, inode.flags>>, <<36, 4, inode.version>>,
        <<100, 4, inode.generation>>, <<104, 4, inode.file_acl>>,
        <<108, 4, inode.dir_acl>>, <<112, 4, inode.faddr>>,
        <<116, 2, inode.extra_isize>>, <<118, 2, inode.checksum>>,
        <<120, 4, inode.ctime_extra>>, <<124, 4, inode.mtime_extra>>,
        <<128, 4, inode.atime_extra>>, <<132, 4, inode.crtime>>,
        <<136, 4, inode.crtime_extra>>, <<140, 4, inode.size_high>>,
        <<144, 4, inode.file_acl_high>>, <<148, 4, inode.obso_faddr>> >>
        \o [i \in 1 .. 15 |-> <<40 + (i - 1) * 4, 4, inode.block[i - 1]>>])

\* Inode::block_count
block_count(inode, block_size) == CeilDiv(inode.size, block_size)

-----------------------------------------------------------------------------
(* lib.rs: inodes, blocks and allocation.  fs is the Ext4FileSystem:       *)
(* [device, superblock, block_groups, mount_options, overflow_checks].     *)

\* a result and the device after the call
WithDev(r, dev) == [st |-> r.st, err |-> r.err, v |-> r.v, dev |-> dev]

\* u32::MAX / k and u32::MAX % k (k > 0), by halves of u32::MAX; the
\* quotient for k = 1 counts as 2^31 - 1, beyond every table length
I32Max == 2147483647

WrapDiv(k) ==
    IF k = 1 THEN I32Max
    ELSE 2 * (I32Max \div k) + ((2 * (I32Max % k) + 1) \div k)

WrapMod(k) == IF k = 1 THEN 0 ELSE (2 * (I32Max % k) + 1) % k

\* the place of inode ino: (ino - 1) / inodes_per_group and so on, as
\* get_inode and write_inode compute it
inode_location(fs, ino) ==
    LET ipg == fs.superblock.inodes_per_group
        inode_size == fs.superblock.inode_size
        block_group == IF ino = 0 THEN WrapDiv(ipg) ELSE (ino - 1) \div ipg
        index       == IF ino = 0 THEN WrapMod(ipg) ELSE (ino - 1) % ipg
        inodes_per_block == fs.superblock.block_size \div inode_size
    IN  IF ino = 0 /\ fs.overflow_checks
        THEN Panic("attempt to subtract with overflow")
        ELSE IF ipg = 0 THEN Panic("attempt to divide by zero")
        ELSE IF block_group >= Len(fs.block_groups) THEN Err("InodeNotFound")
        ELSE IF inode_size = 0 THEN Panic("attempt to divide by zero")
        ELSE IF inodes_per_block = 0 THEN Panic("attempt to divide by zero")
        ELSE Ok([block |-> fs.block_groups[block_group + 1].inode_table
                              + (index \div inodes_per_block),
                 offset |-> (index % inodes_per_block) * inode_size])

\* get_inode: the inode parsed out of the block buf of the inode table
get_inode_parse(fs, ino, loc, buf) ==
    IF ~IsOk(buf) THEN Err("IoError")
    ELSE Inode_from_bytes(Slice(buf.v, loc.offset, fs.superblock.inode_size),
                          fs.superblock.inode_size, ino)

\* get_inode: the read of the block at the location loc
get_inode_read(fs, ino, loc) ==
    IF ~IsOk(loc) THEN loc
    ELSE get_inode_parse(fs, ino, loc.v,
                         device_read_block(fs.device, loc.v.block))

\* Ext4FileSystem::get_inode
get_inode(fs, ino) == get_inode_read(fs, ino, inode_location(fs, ino))

\* Ext4FileSystem::root_inode
EXT4_ROOT_INO == 2

root_inode(fs) == get_inode(fs, EXT4_ROOT_INO)

\* Ext4FileSystem::read_block into a buffer of len bytes
read_block(fs, block, len) ==
    LET Mapped(r) == IF IsOk(r) THEN r ELSE Err("IoError")
    IN  IF len # fs.superblock.block_size THEN Err("InvalidInput")
        ELSE Mapped(device_read_block(fs.device, block))

\* write_block without the check of mount_options.read_only
write_block_unchecked(fs, block, m, len) ==
    LET Mapped(r) == IF IsOk(r) THEN r ELSE WithDev(Err("IoError"), fs.device)
    IN  IF len # fs.superblock.block_size
        THEN WithDev(Err("InvalidInput"), fs.device)
        ELSE Mapped(device_write_block(fs.device, block, m))

\* Ext4FileSystem::write_block of the len bytes m
write_block(fs, block, m, len) ==
    LET Mapped(r) == IF IsOk(r) THEN r ELSE WithDev(Err("IoError"), fs.device)
    IN  IF fs.mount_options.read_only THEN WithDev(Err("ReadOnly"), fs.device)
        ELSE IF len # fs.superblock.block_size
        THEN WithDev(Err("InvalidInput"), fs.device)
        ELSE Mapped(device_write_block(fs.device, block, m))

\* write_inode: the image of the inode copied into the block buf and the
\* block written back
write_inode_put(fs, inode, loc, buf) ==
    IF ~IsOk(buf) THEN WithDev(buf, fs.device)
    ELSE IF fs.superblock.inode_size # InodeImageLen
    THEN WithDev(Panic("source slice length does not match destination"),
                 fs.device)
    ELSE write_block(fs, loc.block,
             Splice(buf.v, loc.offset, fs.superblock.inode_size,
                    Inode_to_bytes(inode)),
             fs.superblock.block_size)

\* write_inode: the read of the block at the location loc
write_inode_read(fs, inode, loc) ==
    IF ~IsOk(loc) THEN WithDev(loc, fs.device)
    ELSE write_inode_put(fs, inode, loc.v,
             read_block(fs, loc.v.block, fs.superblock.block_size))

\* Ext4FileSystem::write_inode
write_inode(fs, inode) ==
    write_inode_read(fs, inode, inode_location(fs, inode.ino))

-----------------------------------------------------------------------------
(* bitmap.rs and the allocators of lib.rs *)

\* Bitmap::is_set on the bytes data, bit < size
is_set(data, bit) == (Byte(data, bit \div 8) \div Pow2(bit % 8)) % 2 = 1

\* Bitmap::find_first_free of Bitmap::from_bytes(data), from byte_index on:
\* [some, bit]
RECURSIVE FindFirstFreeFrom(_, _, _)
FindFirstFreeFrom(data, len, byte_index) ==
    IF byte_index >= len THEN [some |-> FALSE, bit |-> 0]
    ELSE IF Byte(data, byte_index) # 255
    THEN [some |-> TRUE,
          bit  |-> CHOOSE bit \in byte_index * 8 .. byte_index * 8 + 7 :
                       /\ ~is_set(data, bit)
                       /\ \A b \in byte_index * 8 .. bit - 1 : is_set(data, b)]
    ELSE FindFirstFreeFrom(data, len, byte_index + 1)

find_first_free(data, len) == FindFirstFreeFrom(data, len, 0)

\* the loop of alloc_block over the groups from index i (0-based) on
RECURSIVE AllocBlockFrom(_, _)
AllocBlockFrom(fs, i) ==
    LET Pick(free) ==
            IF free.some THEN Ok(i * fs.superblock.blocks_per_group + free.bit)
            ELSE AllocBlockFrom(fs, i + 1)
        Scan(buf) ==
            IF ~IsOk(buf) THEN buf
            ELSE Pick(find_first_free(buf.v, fs.superblock.block_size))
    IN  IF i >= Len(fs.block_groups) THEN Err("NoSpaceLeft")
        ELSE IF fs.block_groups[i + 1].free_blocks_count > 0
        THEN Scan(read_block(fs, fs.block_groups[i + 1].block_bitmap,
                             fs.superblock.block_size))
        ELSE AllocBlockFrom(fs, i + 1)

\* Ext4FileSystem::alloc_block
alloc_block(fs) ==
    IF fs.mount_options.read_only THEN Err("ReadOnly")
    ELSE AllocBlockFrom(fs, 0)

\* the loop of alloc_inode over the groups from index i (0-based) on
RECURSIVE AllocInodeFrom(_, _)
AllocInodeFrom(fs, i) ==
    LET Pick(free) ==
            IF free.some
            THEN Ok(i * fs.superblock.inodes_per_group + free.bit + 1)
            ELSE AllocInodeFrom(fs, i + 1)
        Scan(buf) ==
            IF ~IsOk(buf) THEN buf
            ELSE Pick(find_first_free(buf.v, fs.superblock.block_size))
    IN  IF i >= Len(fs.block_groups) THEN Err("NoSpaceLeft")
        ELSE IF fs.block_groups[i + 1].free_inodes_count > 0
        THEN Scan(read_block(fs, fs.block_groups[i + 1].inode_bitmap,
                             fs.superblock.block_size))
        ELSE AllocInodeFrom(fs, i + 1)

\* Ext4FileSystem::alloc_inode
alloc_inode(fs) ==
    IF fs.mount_options.read_only THEN Err("ReadOnly")
    ELSE AllocInodeFrom(fs, 0)

\* an alloc_block that sets the bit it returns in the block bitmap of
\* group 0 (a variant the allocator is compared with)
alloc_block_marking(fs) ==
    LET r == alloc_block(fs)
        b == fs.block_groups[1].block_bitmap
    IN  IF IsOk(r) /\ r.v < fs.superblock.blocks_per_group
        THEN DevPut(fs.device, b,
                 write_u8(DevBlock(fs.device, b), r.v \div 8,
                     BitOr(Byte(DevBlock(fs.device, b), r.v \div 8),
                           Pow2(r.v % 8))))
        ELSE fs.device

\* the device after alloc_block(&self): the bitmap is read into a buffer
\* of its own and nothing is written
alloc_block_device(fs) == fs.device

\* the device after alloc_inode(&self)
alloc_inode_device(fs) == fs.device

\* Ext4FileSystem::stats
stats(fs) ==
    Ok([block_size   |-> fs.superblock.block_size,
        total_blocks |-> fs.superblock.blocks_count,
        free_blocks  |-> fs.superblock.free_blocks_count,
        total_inodes |-> fs.superblock.inodes_count,
        free_inodes  |-> fs.superblock.free_inodes_count])

-----------------------------------------------------------------------------
(* extent.rs *)

EXT4_EXT_MAGIC == 62218

\* Extent::from_bytes: start is read from the bytes 6..10
Extent_from_bytes(data, off) ==
    [block |-> read_u32(data, off), len |-> read_u16(data, off + 4),
     start |-> read_u32(data, off + 6)]

\* ExtentIndex::from_bytes
ExtentIndex_from_bytes(data, off) ==
    [block |-> read_u32(data, off), leaf |-> read_u32(data, off + 4)]

\* parse_extent_node of a block of len bytes: [leaf, entries]
parse_extent_node(data, len) ==
    IF read_u16(data, 0) # EXT4_EXT_MAGIC THEN Err("InvalidInput")
    ELSE
        LET entries == read_u16(data, 2)
            depth   == read_u16(data, 6)
            n       == Min(entries, (len - 12) \div 12)
        IN  Ok([leaf    |-> depth = 0,
                entries |-> [i \in 1 .. n |->
                    IF depth = 0 THEN Extent_from_bytes(data, 12 * i)
                    ELSE ExtentIndex_from_bytes(data, 12 * i)]])

\* the least element of a set of numbers
MinOf(S) == CHOOSE h \in S : \A j \in S : h <= j

\* the first extent of a leaf that covers logical_block
LeafLookup(extents, logical_block) ==
    LET hits == {i \in DOMAIN extents :
                    /\ logical_block >= extents[i].block
                    /\ logical_block < extents[i].block + extents[i].len}
        First(i) == Ok(extents[i].start + (logical_block - extents[i].block))
    IN  IF hits = {} THEN Err("BlockNotFound") ELSE First(MinOf(hits))

RECURSIVE find_block_in_extent_node(_, _, _, _)

\* find_block_in_extent_node: the search in the parsed node
extent_node_search(fs, node, logical_block, fuel) ==
    LET Follow(hits, indices) ==
            IF hits = {} THEN Err("BlockNotFound")
            ELSE find_block_in_extent_node(fs, indices[MinOf(hits)].leaf,
                                           logical_block, fuel - 1)
        Descend(indices) ==
            Follow({i \in DOMAIN indices :
                       /\ logical_block >= indices[i].block
                       /\ (i + 1 <= Len(indices)
                               => logical_block < indices[i + 1].block)},
                   indices)
    IN  IF ~IsOk(node) THEN node
        ELSE IF node.v.leaf THEN LeafLookup(node.v.entries, logical_block)
        ELSE Descend(node.v.entries)

\* find_block_in_extent_node: the parse of the block read
extent_node_parse(fs, buf, logical_block, fuel) ==
    IF ~IsOk(buf) THEN buf
    ELSE extent_node_search(fs,
             parse_extent_node(buf.v, fs.superblock.block_size),
             logical_block, fuel)

\* find_block_in_extent_node.  The code recurses without a bound; a walk
\* through more nodes than the device has blocks repeats a block and never
\* returns, which ends in a stack overflow: fuel counts the nodes left.
find_block_in_extent_node(fs, block_num, logical_block, fuel) ==
    IF fuel = 0 THEN Panic("stack overflow")
    ELSE extent_node_parse(fs,
             read_block(fs, block_num, fs.superblock.block_size),
             logical_block, fuel)

\* the loop over the inline extents from entry i on
RECURSIVE InlineLookup(_, _, _, _)
InlineLookup(inode_block, logical_block, i, n) ==
    IF i >= n THEN Err("BlockNotFound")
    ELSE
        LET idx      == 1 + i * 3
            block    == inode_block[idx]
            len      == inode_block[idx + 1] % 65536
            start_hi == (inode_block[idx + 1] \div 65536) % 65536
            start_lo == inode_block[idx + 2]
            start    == BitOr(start_hi * 65536, start_lo)
        IN  IF len = 0 /\ logical_block = 0 THEN Ok(block)
            ELSE IF logical_block >= block /\ len > 0
                    /\ logical_block < block + len
            THEN Ok(start + (logical_block - block))
            ELSE InlineLookup(inode_block, logical_block, i + 1, n)

\* find_block_in_extent_tree; the depth it reads from bits 32.. of a u32
\* is always 0
find_block_in_extent_tree(fs, inode_block, logical_block) ==
    LET extent_root == inode_block[0]
        entries     == (extent_root \div 65536) % 65536
    IN  IF extent_root % 65536 = EXT4_EXT_MAGIC THEN
            IF entries > 0
            THEN InlineLookup(inode_block, logical_block, 0, Min(entries, 4))
            ELSE Err("BlockNotFound")
        ELSE IF extent_root = 0 THEN Err("BlockNotFound")
        ELSE find_block_in_extent_node(fs, extent_root, logical_block,
                                       fs.device.num_blocks)

-----------------------------------------------------------------------------
(* inode.rs: block mapping *)

\* EXT4_FEATURE_INCOMPAT_EXTENTS
INCOMPAT_EXTENTS == 64

uses_extents(fs) == BitAnd(fs.superblock.feature_incompat, INCOMPAT_EXTENTS) # 0

\* Inode::get_indirect_block
get_indirect_block(indirect_block, index, block_size, fs) ==
    LET Entry(buf) ==
            IF ~IsOk(buf) THEN buf
            ELSE IF index * 4 + 4 > block_size THEN Err("InvalidInput")
            ELSE Ok(read_u32(buf.v, index * 4))
    IN  IF indirect_block = 0 THEN Ok(0)
        ELSE Entry(read_block(fs, indirect_block, block_size))

\* the final "Validate block number" step of get_block_number
ValidateBlockNum(r, fs) ==
    IF ~IsOk(r) THEN r
    ELSE IF r.v = 0 \/ r.v >= fs.superblock.blocks_count THEN Ok(0)
    ELSE r

\* get_block_number: block_num read from the last pointer block b
get_block_number_last(b, index, block_size, fs) ==
    IF ~IsOk(b) THEN b
    ELSE IF b.v = 0 THEN Ok(0)
    ELSE ValidateBlockNum(get_indirect_block(b.v, index, block_size, fs), fs)

\* get_block_number: the middle level of the triply indirect walk
get_block_number_mid(b, second_level, third_level, block_size, fs) ==
    IF ~IsOk(b) THEN b
    ELSE IF b.v = 0 THEN Ok(0)
    ELSE get_block_number_last(
             get_indirect_block(b.v, second_level, block_size, fs),
             third_level, block_size, fs)

\* Inode::get_block_number after block_index = offset / block_size
get_block_number_at(inode, block_index, block_size, fs) ==
    LET ppb         == block_size \div 4
        doubly_index == block_index - 12 - ppb
        triply_index == block_index - 12 - ppb - ppb * ppb
        remaining    == triply_index % (ppb * ppb)
    IN  IF uses_extents(fs)
        THEN find_block_in_extent_tree(fs, inode.block, block_index)
        ELSE IF block_index < 12
        THEN ValidateBlockNum(Ok(inode.block[block_index]), fs)
        ELSE IF block_index < 12 + ppb THEN
            IF inode.block[12] = 0 THEN Ok(0)
            ELSE ValidateBlockNum(
                     get_indirect_block(inode.block[12], block_index - 12,
                                        block_size, fs), fs)
        ELSE IF block_index < 12 + ppb + ppb * ppb THEN
            IF inode.block[13] = 0 THEN Ok(0)
            ELSE get_block_number_last(
                     get_indirect_block(inode.block[13], doubly_index \div ppb,
                                        block_size, fs),
                     doubly_index % ppb, block_size, fs)
        ELSE
            IF inode.block[14] = 0 THEN Ok(0)
            ELSE get_block_number_mid(
                     get_indirect_block(inode.block[14],
                                        triply_index \div (ppb * ppb),
                                        block_size, fs),
                     remaining \div ppb, remaining % ppb, block_size, fs)

\* Inode::get_block_number
get_block_number(inode, offset, block_size, fs) ==
    get_block_number_at(inode, offset \div block_size, block_size, fs)

\* the file system with the device after a write
WithDevice(fs, dev) == [fs EXCEPT !.device = dev]

\* Inode::set_indirect_block
set_indirect_block(indirect_block, index, block_num, block_size, fs) ==
    LET Put(buf) ==
            IF ~IsOk(buf) THEN WithDev(buf, fs.device)
            ELSE IF index * 4 + 4 > block_size
            THEN WithDev(Err("InvalidInput"), fs.device)
            ELSE write_block(fs, indirect_block,
                     write_u32(buf.v, index * 4, block_num), block_size)
    IN  IF indirect_block = 0 THEN WithDev(Err("InvalidInput"), fs.device)
        ELSE Put(read_block(fs, indirect_block, block_size))

\* a result, the device and the inode after a call that takes &mut self
WithInode(r, dev, inode) ==
    [st |-> r.st, err |-> r.err, v |-> r.v, dev |-> dev, inode |-> inode]

\* set_block: self.block[slot] = a and the new block a zeroed
EnsureTop_zero(inode, slot, block_size, fs, a) ==
    LET Zeroed(w) == WithInode(w, w.dev, [inode EXCEPT !.block[slot] = a.v])
    IN  IF ~IsOk(a) THEN WithInode(a, fs.device, inode)
        ELSE Zeroed(write_block(fs, a.v, EmptyBytes, block_size))

\* set_block: "allocate ... block if needed" for self.block[slot]
EnsureTop(inode, slot, block_size, fs) ==
    IF inode.block[slot] # 0 THEN WithInode(Ok(0), fs.device, inode)
    ELSE EnsureTop_zero(inode, slot, block_size, fs, alloc_block(fs))

\* get or allocate: the new block a zeroed after it was linked (s1)
GetOrAlloc_zero(block_size, fs, a, s1) ==
    LET Zeroed(w) == IF ~IsOk(w) THEN w ELSE WithDev(a, w.dev)
    IN  IF ~IsOk(s1) THEN s1
        ELSE Zeroed(write_block(WithDevice(fs, s1.dev), a.v, EmptyBytes,
                                block_size))

\* get or allocate: the new block a linked into the pointer block parent
GetOrAlloc_link(parent, index, block_size, fs, a) ==
    IF ~IsOk(a) THEN WithDev(a, fs.device)
    ELSE GetOrAlloc_zero(block_size, fs, a,
             set_indirect_block(parent, index, a.v, block_size, fs))

\* get or allocate: the entry g found at index
GetOrAlloc_found(parent, index, block_size, fs, g) ==
    IF ~IsOk(g) THEN WithDev(g, fs.device)
    ELSE IF g.v # 0 THEN WithDev(g, fs.device)
    ELSE GetOrAlloc_link(parent, index, block_size, fs, alloc_block(fs))

\* set_block: "get or allocate" the block at index of the pointer block
\* parent; v is that block
GetOrAlloc(parent, index, block_size, fs) ==
    GetOrAlloc_found(parent, index, block_size, fs,
                     get_indirect_block(parent, index, block_size, fs))

\* set_block: the result r of its last call, with the inode as it is left
set_block_finish(r, top) == WithInode(r, r.dev, top.inode)

\* set_block: the final set_indirect_block, in the pointer block b
set_block_last(b, index, block_num, block_size, fs, top) ==
    IF ~IsOk(b) THEN set_block_finish(b, top)
    ELSE set_block_finish(
             set_indirect_block(b.v, index, block_num, block_size,
                                WithDevice(fs, b.dev)), top)

\* set_block, "Singly indirect block", after block[12] is there
set_block_single(block_index, block_num, block_size, fs, top) ==
    IF ~IsOk(top) THEN top
    ELSE set_block_finish(
             set_indirect_block(top.inode.block[12], block_index - 12,
                 block_num, block_size, WithDevice(fs, top.dev)), top)

\* set_block, "Doubly indirect block", after block[13] is there
set_block_double(doubly_index, block_num, block_size, fs, top) ==
    IF ~IsOk(top) THEN top
    ELSE set_block_last(
             GetOrAlloc(top.inode.block[13],
                        doubly_index \div (block_size \div 4), block_size,
                        WithDevice(fs, top.dev)),
             doubly_index % (block_size \div 4), block_num, block_size, fs, top)

\* set_block, "Triply indirect block", after the doubly indirect block b
set_block_triple_mid(b, remaining, block_num, block_size, fs, top) ==
    IF ~IsOk(b) THEN set_block_finish(b, top)
    ELSE set_block_last(
             GetOrAlloc(b.v, remaining \div (block_size \div 4), block_size,
                        WithDevice(fs, b.dev)),
             remaining % (block_size \div 4), block_num, block_size, fs, top)

\* set_block, "Triply indirect block", after block[14] is there
set_block_triple(triply_index, block_num, block_size, fs, top) ==
    LET ppb == block_size \div 4
    IN  IF ~IsOk(top) THEN top
        ELSE set_block_triple_mid(
                 GetOrAlloc(top.inode.block[14], triply_index \div (ppb * ppb),
                            block_size, WithDevice(fs, top.dev)),
                 triply_index % (ppb * ppb), block_num, block_size, fs, top)

\* Inode::set_block
set_block(inode, block_index, block_num, block_size, fs) ==
    LET ppb == block_size \div 4
    IN  IF block_index < 12
        THEN WithInode(Ok(0), fs.device,
                       [inode EXCEPT !.block[block_index] = block_num])
        ELSE IF block_index < 12 + ppb
        THEN set_block_single(block_index, block_num, block_size, fs,
                              EnsureTop(inode, 12, block_size, fs))
        ELSE IF block_index < 12 + ppb + ppb * ppb
        THEN set_block_double(block_index - 12 - ppb, block_num, block_size,
                              fs, EnsureTop(inode, 13, block_size, fs))
        ELSE set_block_triple(block_index - 12 - ppb - ppb * ppb, block_num,
                              block_size, fs,
                              EnsureTop(inode, 14, block_size, fs))

-----------------------------------------------------------------------------
(* lib.rs: directories.  A name is the sequence of its bytes, a path too.  *)

SLASH == 47

\* path.split('/').filter(|s| !s.is_empty()), from the left
RECURSIVE SplitPath(_, _)
SplitPath(path, cur) ==
    IF path = <<>> THEN (IF cur = <<>> THEN <<>> ELSE <<cur>>)
    ELSE IF Head(path) = SLASH
    THEN (IF cur = <<>> THEN <<>> ELSE <<cur>>) \o SplitPath(Tail(path), <<>>)
    ELSE SplitPath(Tail(path), Append(cur, Head(path)))

\* the loop "Read directory data" from block i of the directory on
RECURSIVE ReadDirData(_, _, _, _)
ReadDirData(fs, inode, i, dir_data) ==
    LET block_size == fs.superblock.block_size
        Add(block_buf) ==
            IF ~IsOk(block_buf) THEN block_buf
            ELSE ReadDirData(fs, inode, i + 1,
                             Extend(dir_data, block_buf.v, block_size))
        Got(block_num) ==
            IF ~IsOk(block_num) THEN block_num
            ELSE IF block_num.v = 0 THEN ReadDirData(fs, inode, i + 1, dir_data)
            ELSE Add(read_block(fs, block_num.v, block_size))
    IN  IF i >= block_count(inode, block_size) THEN Ok(dir_data)
        ELSE Got(get_block_number(inode, i * block_size, block_size, fs))

RECURSIVE WalkPath(_, _, _)

\* find_inode: the component looked up in the directory data read
find_inode_lookup(fs, components, dir_data) ==
    LET Look(entry) ==
            IF ~entry.some THEN Err("InodeNotFound")
            ELSE WalkPath(fs, Tail(components), entry.entry.ino)
    IN  IF ~IsOk(dir_data) THEN dir_data
        ELSE Look(find_entry(Directory_from_bytes(dir_data.v).v,
                             Head(components)))

\* find_inode: one round of the loop, in the directory current_inode
find_inode_enter(fs, components, current_inode) ==
    IF ~IsOk(current_inode) THEN current_inode
    ELSE IF ~contains_IFDIR(current_inode.v.mode) THEN Err("NotADirectory")
    ELSE find_inode_lookup(fs, components,
                           ReadDirData(fs, current_inode.v, 0, EmptyBuf))

\* the loop of find_inode over the components left, and its last line
WalkPath(fs, components, current_ino) ==
    IF components = <<>> THEN get_inode(fs, current_ino)
    ELSE find_inode_enter(fs, components, get_inode(fs, current_ino))

\* Ext4FileSystem::find_inode
find_inode(fs, path) ==
    IF path = <<SLASH>> \/ path = <<>> THEN root_inode(fs)
    ELSE WalkPath(fs, SplitPath(path, <<>>), EXT4_ROOT_INO)

\* read_dir: the data of the directory inode, read and parsed
read_dir_data(fs, inode) ==
    LET Parse(dir_data) ==
            IF ~IsOk(dir_data) THEN dir_data
            ELSE Directory_from_bytes(dir_data.v)
    IN  IF ~IsOk(inode) THEN inode
        ELSE IF ~contains_IFDIR(inode.v.mode) THEN Err("NotADirectory")
        ELSE Parse(ReadDirData(fs, inode.v, 0, EmptyBuf))

\* Ext4FileSystem::read_dir
read_dir(fs, ino) == read_dir_data(fs, get_inode(fs, ino))

RECURSIVE GrowDir(_, _, _, _)

\* add_dir_entry: the new block put at block index i of the directory
GrowDir_set(fs, inode, i, required_blocks, new_block) ==
    LET Set(set) ==
            IF ~IsOk(set) THEN set
            ELSE GrowDir(WithDevice(fs, set.dev), set.inode, i + 1,
                         required_blocks)
    IN  IF ~IsOk(new_block) THEN WithInode(new_block, fs.device, inode)
        ELSE Set(set_block(inode, i, new_block.v, fs.superblock.block_size, fs))

\* add_dir_entry: "Allocate more blocks if needed", from block i on
GrowDir(fs, inode, i, required_blocks) ==
    IF i >= required_blocks THEN WithInode(Ok(0), fs.device, inode)
    ELSE GrowDir_set(fs, inode, i, required_blocks, alloc_block(fs))

\* add_dir_entry: "Write directory data to blocks", from chunk i on
RECURSIVE WriteChunks(_, _, _, _)
WriteChunks(fs, inode, data, i) ==
    LET block_size == fs.superblock.block_size
        Written(w) ==
            IF ~IsOk(w) THEN w
            ELSE WriteChunks(WithDevice(fs, w.dev), inode, data, i + 1)
        Got(block_num) ==
            IF ~IsOk(block_num) THEN WithDev(block_num, fs.device)
            ELSE IF block_num.v = 0 THEN WithDev(Err("BlockNotFound"), fs.device)
            ELSE Written(write_block(fs, block_num.v,
                             Slice(data.m, i * block_size,
                                   Min(block_size, data.len - i * block_size)),
                             block_size))
    IN  IF i * block_size >= data.len THEN WithDev(Ok(0), fs.device)
        ELSE Got(get_block_number(inode, i * block_size, block_size, fs))

\* add_dir_entry: "Update directory inode size and write it back"
add_dir_entry_update(fs, updated_inode, new_dir_data, written) ==
    IF ~IsOk(written) THEN written
    ELSE write_inode(WithDevice(fs, written.dev),
             [updated_inode EXCEPT
                  !.size = new_dir_data.len,
                  !.blocks = CeilDiv(new_dir_data.len,
                                     fs.superblock.block_size)])

\* add_dir_entry: the data written to the blocks of the grown directory
add_dir_entry_write(fs, new_dir_data, grown) ==
    IF ~IsOk(grown) THEN WithDev(grown, grown.dev)
    ELSE add_dir_entry_update(fs, grown.inode, new_dir_data,
             WriteChunks(WithDevice(fs, grown.dev), grown.inode,
                         new_dir_data, 0))

\* add_dir_entry: "Write back directory data"
add_dir_entry_grow(fs, dir_inode, new_dir_data) ==
    add_dir_entry_write(fs, new_dir_data,
        GrowDir(fs, dir_inode, block_count(dir_inode, fs.superblock.block_size),
                CeilDiv(new_dir_data.len, fs.superblock.block_size)))

\* add_dir_entry: "Parse directory" and "Add new entry"
add_dir_entry_add(fs, dir_inode, entry, dir_data) ==
    IF ~IsOk(dir_data) THEN WithDev(dir_data, fs.device)
    ELSE add_dir_entry_grow(fs, dir_inode,
             Directory_to_bytes(
                 Append(Directory_from_bytes(dir_data.v).v, entry)).v)

\* add_dir_entry: "Read directory data"
add_dir_entry_read(fs, dir_inode, entry) ==
    IF ~IsOk(dir_inode) THEN WithDev(dir_inode, fs.device)
    ELSE add_dir_entry_add(fs, dir_inode.v, entry,
                           ReadDirData(fs, dir_inode.v, 0, EmptyBuf))

\* Ext4FileSystem::add_dir_entry
add_dir_entry(fs, dir_ino, ino, name, file_type_num) ==
    add_dir_entry_read(fs, get_inode(fs, dir_ino),
        [ino |-> ino, rec_len |-> 8 + Len(name), name_len |-> Len(name) % 256,
         file_type |-> file_type_num, name |-> name])

\* the checks of create_dir and create_file: the name among the entries
CreateChecks_exists(name, dir_entries) ==
    IF ~IsOk(dir_entries) THEN dir_entries
    ELSE IF \E i \in DOMAIN dir_entries.v : dir_entries.v[i].name = name
    THEN Err("FileExists")
    ELSE Ok(0)

\* the checks of create_dir and create_file: the parent
CreateChecks_parent(fs, parent, name, parent_inode) ==
    IF ~IsOk(parent_inode) THEN parent_inode
    ELSE IF ~contains_IFDIR(parent_inode.v.mode) THEN Err("NotADirectory")
    ELSE CreateChecks_exists(name, read_dir(fs, parent))

\* the checks create_dir and create_file begin with
CreateChecks(fs, parent, name) ==
    IF fs.mount_options.read_only THEN Err("ReadOnly")
    ELSE CreateChecks_parent(fs, parent, name, get_inode(fs, parent))

\* create_file and create_dir: "Add entry to parent directory"
create_add_entry(fs, parent, name, file_type_num, new_ino, wi) ==
    LET Added(added) ==
            IF ~IsOk(added) THEN added ELSE WithDev(new_ino, added.dev)
    IN  IF ~IsOk(wi) THEN wi
        ELSE Added(add_dir_entry(WithDevice(fs, wi.dev), parent, new_ino.v,
                                 name, file_type_num))

\* create_file: "Allocate new inode" and "Write inode"
create_file_inode(fs, parent, name, mode, new_ino) ==
    IF ~IsOk(new_ino) THEN WithDev(new_ino, fs.device)
    ELSE create_add_entry(fs, parent, name, 1, new_ino,
             write_inode(fs, [Inode_new(new_ino.v) EXCEPT
                                  !.mode = BitOr(mode, IFREG)]))

\* create_file: after the checks
create_file_checked(fs, parent, name, mode, checks) ==
    IF ~IsOk(checks) THEN WithDev(checks, fs.device)
    ELSE create_file_inode(fs, parent, name, mode, alloc_inode(fs))

\* Ext4FileSystem::create_file
create_file(fs, parent, name, mode) ==
    create_file_checked(fs, parent, name, mode, CreateChecks(fs, parent, name))

\* the name "." and the name ".."
DOT == <<46>>

DOTDOT == <<46, 46>>

\* create_dir: "Update inode" and "Write inode", after the block is written
create_dir_inode(fs, parent, name, mode, new_ino, block_num, dir_data, wb) ==
    IF ~IsOk(wb) THEN wb
    ELSE create_add_entry(WithDevice(fs, wb.dev), parent, name, 2, new_ino,
             write_inode(WithDevice(fs, wb.dev),
                 [Inode_new(new_ino.v) EXCEPT !.mode = BitOr(mode, IFDIR),
                                              !.block[0] = block_num,
                                              !.size = dir_data.len,
                                              !.blocks = 1]))

\* create_dir: "Write directory data"
create_dir_data(fs, parent, name, mode, new_ino, block_num, dir_data) ==
    IF dir_data.len > fs.superblock.block_size
    THEN WithDev(Panic("range end index out of range for slice"), fs.device)
    ELSE create_dir_inode(fs, parent, name, mode, new_ino, block_num, dir_data,
             write_block(fs, block_num, dir_data.m, fs.superblock.block_size))

\* create_dir: "Create directory entries (. and ..)"
create_dir_block(fs, parent, name, mode, new_ino, block_num) ==
    IF ~IsOk(block_num) THEN WithDev(block_num, fs.device)
    ELSE create_dir_data(fs, parent, name, mode, new_ino, block_num.v,
             Directory_to_bytes(<<
                 [ino |-> new_ino.v, rec_len |-> 12, name_len |-> 1,
                  file_type |-> 2, name |-> DOT],
                 [ino |-> parent, rec_len |-> 12, name_len |-> 2,
                  file_type |-> 2, name |-> DOTDOT] >>).v)

\* create_dir: "Allocate new inode" and "Allocate block for directory"
create_dir_checked(fs, parent, name, mode, checks, new_ino) ==
    IF ~IsOk(checks) THEN WithDev(checks, fs.device)
    ELSE IF ~IsOk(new_ino) THEN WithDev(new_ino, fs.device)
    ELSE create_dir_block(fs, parent, name, mode, new_ino, alloc_block(fs))

\* Ext4FileSystem::create_dir
create_dir(fs, parent, name, mode) ==
    create_dir_checked(fs, parent, name, mode, CreateChecks(fs, parent, name),
                       alloc_inode(fs))

-----------------------------------------------------------------------------
(* file.rs.  A File is [inode, position]; a call returns its result, the   *)
(* file after it and, where it writes, the device after it.                *)

File_new(inode) == [inode |-> inode, position |-> 0]

\* a result and the file after the call
WithFile(r, f) == [st |-> r.st, err |-> r.err, v |-> r.v, file |-> f]

\* File::seek
seek(f, offset) ==
    IF offset > f.inode.size THEN WithFile(Err("InvalidInput"), f)
    ELSE WithFile(Ok(offset), [f EXCEPT !.position = offset])

\* File::seek_from_current; checked_sub gives None below 0
seek_from_current(f, offset) ==
    LET pos == f.position + offset
    IN  IF pos >= 0 /\ pos <= f.inode.size
        THEN WithFile(Ok(pos), [f EXCEPT !.position = pos])
        ELSE WithFile(Err("InvalidInput"), f)

\* File::seek_from_end; checked_sub gives None below 0
seek_from_end(f, offset) ==
    LET pos == f.inode.size + offset
    IN  IF pos >= 0
        THEN WithFile(Ok(pos), [f EXCEPT !.position = pos])
        ELSE WithFile(Err("InvalidInput"), f)

\* the loop of File::read: data holds the bytes_read bytes put in buf
RECURSIVE ReadLoop(_, _, _, _, _)
ReadLoop(f, fs, buf_len, offset, data) ==
    LET block_size == fs.superblock.block_size
        bytes_read == data.len
        block_offset == offset % block_size
        remaining_in_block == Min(block_size - block_offset, buf_len - bytes_read)
        \* the bytes got put in buf, and the next round
        Put(got) ==
            ReadLoop(f, fs, buf_len, offset + remaining_in_block,
                     Extend(data, got, remaining_in_block))
        Copy(block_buf) ==
            IF ~IsOk(block_buf) THEN Put(EmptyBytes)
            ELSE Put(Slice(block_buf.v, block_offset, remaining_in_block))
        Got(block_num) ==
            IF ~IsOk(block_num)
            THEN [st |-> block_num.st, err |-> block_num.err, v |-> 0,
                  data |-> data, file |-> f]
            ELSE IF block_num.v = 0 \/ block_num.v >= fs.superblock.blocks_count
            THEN Put(EmptyBytes)
            ELSE Copy(read_block(fs, block_num.v, block_size))
    IN  IF ~(bytes_read < buf_len /\ offset < f.inode.size)
        THEN [st |-> "ok", err |-> "", v |-> bytes_read, data |-> data,
              file |-> [f EXCEPT !.position = offset]]
        ELSE Got(get_block_number(f.inode, offset, block_size, fs))

\* File::read into a buffer of buf_len bytes: v bytes read, data the bytes
File_read(f, buf_len, fs) ==
    IF f.position >= f.inode.size
    THEN [st |-> "ok", err |-> "", v |-> 0, data |-> EmptyBuf, file |-> f]
    ELSE ReadLoop(f, fs, buf_len, f.position, EmptyBuf)

\* a result, the device and the file after a call
WithFileDev(r, dev, f) ==
    [st |-> r.st, err |-> r.err, v |-> r.v, dev |-> dev, file |-> f]

RECURSIVE WriteLoop(_, _, _, _, _, _)

\* one round of the loop of File::write, into the block block_num: fs1 and
\* inode1 are the file system and the inode clone after the block was found
write_into(f, fs1, buf, bytes_written, offset, inode1, block_num) ==
    LET block_size == fs1.superblock.block_size
        block_offset == offset % block_size
        remaining_in_block ==
            Min(block_size - block_offset, buf.len - bytes_written)
        Written(w) ==
            IF ~IsOk(w) THEN WithFileDev(w, w.dev, f)
            ELSE WriteLoop(f, WithDevice(fs1, w.dev), buf,
                           bytes_written + remaining_in_block,
                           offset + remaining_in_block, inode1)
        Fill(old) ==
            Written(write_block(fs1, block_num,
                        Splice(IF (block_offset > 0
                                      \/ remaining_in_block < block_size)
                                  /\ IsOk(old)
                               THEN old.v ELSE EmptyBytes,
                               block_offset, remaining_in_block,
                               Slice(buf.m, bytes_written, remaining_in_block)),
                        block_size))
    IN  Fill(read_block(fs1, block_num, block_size))

\* File::write: the block of the round, found or newly allocated
write_block_num(f, fs, buf, bytes_written, offset, inode, found, new_block) ==
    LET Set(set) ==
            IF ~IsOk(set) THEN WithFileDev(set, set.dev, f)
            ELSE write_into(f, WithDevice(fs, set.dev), buf, bytes_written,
                            offset, set.inode, new_block.v)
    IN  IF found.st = "panic" THEN WithFileDev(found, fs.device, f)
        ELSE IF IsOk(found) /\ found.v # 0
                /\ found.v < fs.superblock.blocks_count
        THEN write_into(f, fs, buf, bytes_written, offset, inode, found.v)
        ELSE IF ~IsOk(new_block) THEN WithFileDev(new_block, fs.device, f)
        ELSE Set(set_block(inode, offset \div fs.superblock.block_size,
                           new_block.v, fs.superblock.block_size, fs))

\* File::write after its loop: "Update file size if needed" and "Write
\* updated inode"
write_finish(f, fs, bytes_written, offset, final) ==
    LET Saved(wi) ==
            IF ~IsOk(wi)
            THEN WithFileDev(wi, wi.dev, [f EXCEPT !.position = offset])
            ELSE WithFileDev(Ok(bytes_written), wi.dev,
                             [inode |-> final, position |-> offset])
    IN  Saved(write_inode(fs, final))

\* the loop of File::write: inode is the clone being updated
WriteLoop(f, fs, buf, bytes_written, offset, inode) ==
    IF bytes_written >= buf.len
    THEN write_finish(f, fs, bytes_written, offset,
             IF offset > inode.size
             THEN [inode EXCEPT
                       !.size = offset,
                       !.blocks = CeilDiv(offset, fs.superblock.block_size)]
             ELSE inode)
    ELSE write_block_num(f, fs, buf, bytes_written, offset, inode,
             get_block_number(inode, offset, fs.superblock.block_size, fs),
             alloc_block(fs))

\* File::write of the bytes buf
File_write(f, buf, fs) == WriteLoop(f, fs, buf, 0, f.position, f.inode)

RECURSIVE ExpandLoop(_, _, _, _)

\* truncate, "Expand file": the new block set and zeroed
expand_set(f, fs, block_index, new_block_count, new_block, set) ==
    LET Zeroed(w) ==
            IF ~IsOk(w)
            THEN WithFileDev(w, w.dev, [f EXCEPT !.inode = set.inode])
            ELSE ExpandLoop([f EXCEPT !.inode = set.inode],
                            WithDevice(fs, w.dev), block_index + 1,
                            new_block_count)
    IN  IF ~IsOk(set)
        THEN WithFileDev(set, set.dev, [f EXCEPT !.inode = set.inode])
        ELSE Zeroed(write_block(WithDevice(fs, set.dev), new_block, EmptyBytes,
                                fs.superblock.block_size))

\* truncate, "Expand file": the block allocated for block_index
expand_alloc(f, fs, block_index, new_block_count, new_block) ==
    IF ~IsOk(new_block) THEN WithFileDev(new_block, fs.device, f)
    ELSE expand_set(f, fs, block_index, new_block_count, new_block.v,
             set_block(f.inode, block_index, new_block.v,
                       fs.superblock.block_size, fs))

\* truncate, "Expand file": from block_index on
ExpandLoop(f, fs, block_index, new_block_count) ==
    IF block_index >= new_block_count THEN WithFileDev(Ok(0), fs.device, f)
    ELSE expand_alloc(f, fs, block_index, new_block_count, alloc_block(fs))

RECURSIVE ShrinkLoop(_, _, _, _)

\* truncate, "Shrink file": the block at block_index freed if there is one
shrink_free(f, fs, block_index, old_block_count, block_num) ==
    LET Set(set) ==
            IF ~IsOk(set)
            THEN WithFileDev(set, set.dev, [f EXCEPT !.inode = set.inode])
            ELSE ShrinkLoop([f EXCEPT !.inode = set.inode],
                            WithDevice(fs, set.dev), block_index + 1,
                            old_block_count)
    IN  IF block_num.st = "panic" THEN WithFileDev(block_num, fs.device, f)
        ELSE IF IsOk(block_num) /\ block_num.v # 0
        THEN Set(set_block(f.inode, block_index, 0, fs.superblock.block_size,
                           fs))
        ELSE ShrinkLoop(f, fs, block_index + 1, old_block_count)

\* truncate, "Shrink file": from block_index on
ShrinkLoop(f, fs, block_index, old_block_count) ==
    IF block_index >= old_block_count THEN WithFileDev(Ok(0), fs.device, f)
    ELSE shrink_free(f, fs, block_index, old_block_count,
             get_block_number(f.inode, block_index * fs.superblock.block_size,
                              fs.superblock.block_size, fs))

\* truncate: "Update the inode size" and "Adjust position"
truncate_resized(new_size, loop) ==
    IF ~IsOk(loop) THEN loop
    ELSE WithFileDev(Ok(0), loop.dev,
             [loop.file EXCEPT !.inode.size = new_size,
                               !.position = Min(@, new_size)])

\* File::truncate
truncate(f, new_size, fs) ==
    LET block_size == fs.superblock.block_size
        old_block_count == CeilDiv(f.inode.size, block_size)
        new_block_count == CeilDiv(new_size, block_size)
    IN  IF new_size > f.inode.size
        THEN truncate_resized(new_size,
                 ExpandLoop(f, fs, old_block_count, new_block_count))
        ELSE IF new_size < f.inode.size
        THEN truncate_resized(new_size,
                 ShrinkLoop(f, fs, new_block_count, old_block_count))
        ELSE truncate_resized(new_size, WithFileDev(Ok(0), fs.device, f))

-----------------------------------------------------------------------------
(* File system images.  An image is laid out by its block size: the        *)
(* superblock at byte 1024, then one block each for the group descriptors, *)
(* the block bitmap and the inode bitmap, then the inode table and the     *)
(* block of the root directory; the blocks after it are free.              *)

\* blocks of the device and of the file system
ImgBlocks == 16

\* inodes of the one group, and the inode size the layout uses
ImgInodes == 8

ImgInodeSize == InodeImageLen

ImgBlocksPerGroup == 8192

\* the geometry of a well-formed image of block size 1024 << log
GoodGeom(log, extents) ==
    [log |-> log, blocks_count |-> ImgBlocks,
     blocks_per_group |-> ImgBlocksPerGroup, inodes_per_group |-> ImgInodes,
     inode_size |-> ImgInodeSize, extents |-> extents]

\* block size of the device an image is on
ImgBlockSize(g) == IF g.log \in {0, 1, 2} THEN 1024 * Pow2(g.log) ELSE 1024

ImgFirstDataBlock(g) == IF ImgBlockSize(g) = 1024 THEN 1 ELSE 0

ImgDescBlock(g) == ImgFirstDataBlock(g) + 1

ImgBlockBitmap(g) == ImgDescBlock(g) + 1

ImgInodeBitmap(g) == ImgDescBlock(g) + 2

ImgInodeTable(g) == ImgDescBlock(g) + 3

ImgRootBlock(g) ==
    ImgInodeTable(g) + CeilDiv(ImgInodes * ImgInodeSize, ImgBlockSize(g))

\* the first block the block bitmap shows free
ImgFirstFree(g) == ImgRootBlock(g) + 1

\* the superblock as SuperBlock::from_bytes reads it
ImgSuperBlock(g) ==
    PutFields(<< <<0, 4, ImgInodes>>, <<4, 4, g.blocks_count>>,
                 <<12, 4, ImgBlocks - ImgFirstFree(g)>>, <<16, 4, ImgInodes - 2>>,
                 <<20, 4, ImgFirstDataBlock(g)>>, <<24, 4, g.log>>,
                 <<32, 4, g.blocks_per_group>>, <<40, 4, g.inodes_per_group>>,
                 <<56, 2, 61267>>, <<58, 2, 1>>, <<76, 4, 1>>,
                 <<88, 2, g.inode_size>>,
                 <<96, 4, IF g.extents THEN INCOMPAT_EXTENTS ELSE 0>> >>)

\* the descriptor of group 0 as BlockGroupDescriptor::from_bytes reads it
ImgDescriptor(g) ==
    PutFields(<< <<0, 4, ImgBlockBitmap(g)>>, <<4, 4, ImgInodeBitmap(g)>>,
                 <<8, 4, ImgInodeTable(g)>>,
                 <<12, 2, ImgBlocks - ImgFirstFree(g)>>,
                 <<14, 2, ImgInodes - 2>>, <<16, 2, 1>> >>)

\* a bitmap with the bits 0 .. n - 1 set (n < 16)
LowBits(n) == PutFields(<< <<0, 2, Pow2(n) - 1>> >>)

\* block pointers of a file whose only block is b: a direct pointer, or
\* an extent tree root in the inode in the on-disk layout (header of three
\* words, then the extent: first logical block, length, start)
OneBlock(g, b) ==
    IF g.extents
    THEN [i \in 0 .. 14 |->
            CASE i = 0 -> EXT4_EXT_MAGIC + 65536 * 1
              [] i = 1 -> 4
              [] i = 4 -> 1
              [] i = 5 -> b
              [] OTHER -> 0]
    ELSE [i \in 0 .. 14 |-> IF i = 0 THEN b ELSE 0]

ImgRootInode(g) ==
    [Inode_new(EXT4_ROOT_INO) EXCEPT !.mode = DEFAULT_DIR, !.links_count = 2,
                                     !.size = ImgBlockSize(g), !.blocks = 1,
                                     !.block = OneBlock(g, ImgRootBlock(g))]

\* the block of the root directory: "." and ".."
ImgRootDir(g) ==
    LET dot == entry_to_bytes_with_rec_len(
                   [ino |-> EXT4_ROOT_INO, name_len |-> 1, file_type |-> 2,
                    name |-> DOT], 12)
        dotdot == entry_to_bytes_with_rec_len(
                   [ino |-> EXT4_ROOT_INO, name_len |-> 2, file_type |-> 2,
                    name |-> DOTDOT], ImgBlockSize(g) - 12)
    IN  Extend(dot, dotdot.m, dotdot.len).m

\* the bytes m moved to offset off
ShiftBytes(m, off) == [o \in {x + off : x \in DOMAIN m} |-> m[o - off]]

\* the bytes an inode takes in the inode table
ImgStride(g) == IF g.inode_size = 128 THEN 128 ELSE ImgInodeSize

\* the blocks of the inode table holding the inodes of the set inodes
ImgTable(g, inodes) ==
    LET bs  == ImgBlockSize(g)
        at(i) == (i.ino - 1) * ImgStride(g)
        blk(b) == {i \in inodes : at(i) \div bs = b - ImgInodeTable(g)}
        cells(b) == UNION {{<<(at(i) % bs) + o, Inode_to_bytes(i)[o]>> :
                               o \in {x \in DOMAIN Inode_to_bytes(i) :
                                          x < ImgStride(g)}} : i \in blk(b)}
    IN  [b \in {ImgInodeTable(g) + (at(i) \div bs) : i \in inodes} |->
            [o \in {c[1] : c \in cells(b)} |->
                (CHOOSE c \in cells(b) : c[1] = o)[2]]]

\* the device holding the image of geometry g with the inodes more beside
\* the root and the data blocks extra
Image(g, more, extra) ==
    LET bs == ImgBlockSize(g)
        sb == IF bs = 1024 THEN [b \in {1} |-> ImgSuperBlock(g)]
              ELSE [b \in {0} |-> ShiftBytes(ImgSuperBlock(g), 1024)]
        table == ImgTable(g, {ImgRootInode(g)} \cup more)
        fixed == [b \in {ImgDescBlock(g), ImgBlockBitmap(g), ImgInodeBitmap(g),
                         ImgRootBlock(g)} |->
                    CASE b = ImgDescBlock(g) -> ImgDescriptor(g)
                      [] b = ImgBlockBitmap(g) -> LowBits(ImgFirstFree(g))
                      [] b = ImgInodeBitmap(g) -> LowBits(2)
                      [] OTHER -> ImgRootDir(g)]
        all == DOMAIN sb \cup DOMAIN table \cup DOMAIN fixed \cup DOMAIN extra
    IN  [block_size |-> bs, num_blocks |-> ImgBlocks,
         data |-> [b \in all |->
                     IF b \in DOMAIN extra THEN extra[b]
                     ELSE IF b \in DOMAIN sb THEN sb[b]
                     ELSE IF b \in DOMAIN table THEN table[b]
                     ELSE fixed[b]]]

\* values of the variables a specification does not use
NoFs == [block_size |-> 0]

NoFile == [position |-> 0]

NoIter == [offset |-> 0]
NoJournal == [journal_size |-> 0]

NoBitmap == [size |-> 0]

NoRet == Ok(0)

\* the Ext4FileSystem the variables hold
Fs ==
    [device |-> device, superblock |-> superblock,
     block_groups |-> block_groups, mount_options |-> mount_options,
     overflow_checks |-> overflow_checks]

MountOptions(read_only) ==
    [read_only |-> read_only, journaling |-> TRUE, exec_check |-> FALSE]

\* the variables after Ext4FileSystem::new(dev, options) returned m = Ok
MountedAs(dev, read_only, m) ==
    /\ IsOk(m)
    /\ device = dev
    /\ superblock = m.v.superblock
    /\ block_groups = m.v.block_groups
    /\ mount_options = MountOptions(read_only)
    /\ mounted = TRUE

Mounted(dev, read_only) == MountedAs(dev, read_only, new(dev, overflow_checks))

\* the variables of a File that is used without a file system
Unmounted ==
    /\ device = NoFs
    /\ superblock = NoFs
    /\ block_groups = <<>>
    /\ mount_options = NoFs
    /\ mounted = FALSE

-----------------------------------------------------------------------------
(* SpecIter: a DirectoryIterator over byte buffers *)

\* number of entries laid out in a buffer
MaxChunks == 2

\* the bytes an entry occupies in the buffer and its rec_len field: equal,
\* or a rec_len of 0, or one beyond the end of the buffer
ChunkLens == {<<8, 8>>, <<12, 12>>, <<12, 0>>, <<8, 40>>}

\* inode fields: 0 is a deleted entry
IterInos == {0, 5}

\* name_len field and the byte that fills the name area
ChunkNames == {<<0, 0>>, <<1, 97>>, <<1, 255>>, <<9, 97>>}

\* bytes after the last entry
TailLens == {0, 4}

Chunks ==
    {[ino |-> i, clen |-> l[1], rec_len |-> l[2], name |-> n] :
        i \in IterInos, l \in ChunkLens, n \in ChunkNames}

\* the bytes of one entry: header, then the name area
ChunkBytes(c) ==
    LET head == write_u8(write_u8(write_u16(write_u32(EmptyBytes, 0, c.ino),
                    4, c.rec_len), 6, c.name[1]), 7, 1)
    IN  Splice(head, 8, c.clen - 8,
               SeqBytes([i \in 1 .. c.clen - 8 |-> c.name[2]]))

\* the buffer holding the entries of cs one after the other, then tail bytes
RECURSIVE ChunksBuf(_, _)
ChunksBuf(cs, tail) ==
    IF cs = <<>> THEN Buf(tail, EmptyBytes)
    ELSE
        LET c    == Head(cs)
            rest == ChunksBuf(Tail(cs), tail)
        IN  Buf(c.clen + rest.len, Splice(Splice(EmptyBytes, 0, c.clen, ChunkBytes(c)),
                    c.clen, rest.len, rest.m))

InitIter ==
    /\ overflow_checks = FALSE
    /\ device = NoFs
    /\ superblock = NoFs
    /\ block_groups = <<>>
    /\ mount_options = NoFs
    /\ mounted = FALSE
    /\ file = NoFile
    /\ bitmap = NoBitmap
    /\ journal = NoJournal
    /\ ret = NoRet
    /\ nops = 0
    /\ \E n \in 1 .. MaxChunks : \E cs \in [1 .. n -> Chunks] : \E tail \in TailLens :
        /\ hist = [chunks |-> cs, tail |-> tail]
        /\ iter = [data |-> ChunksBuf(cs, tail), offset |-> 0, items |-> <<>>,
                   done |-> FALSE]

\* one call of next() by the consumer of the iterator
IterNext ==
    /\ ~iter.done
    /\ LET n == DirectoryIterator_next(iter.data, iter.offset)
       IN  /\ iter' = [iter EXCEPT !.offset = n.offset,
                                   !.items = IF n.some THEN Append(@, n.item) ELSE @,
                                   !.done = ~n.some]
           /\ ret' = n.item
    /\ UNCHANGED <<fsVars, file, bitmap, journal, hist, nops>>

NextIter == IterNext

SpecIter == InitIter /\ [][NextIter]_vars

\* the buffer is a valid directory block: the rec_len chain covers it
ValidChain == hist.tail = 0 /\ \A i \in DOMAIN hist.chunks :
                  hist.chunks[i].rec_len = hist.chunks[i].clen

\* what an entry of the buffer parses to
ChunkItem(c) ==
    IF c.name[1] <= c.clen - 8 /\ c.name[2] < 128
    THEN Ok([ino |-> c.ino, rec_len |-> c.rec_len, name_len |-> c.name[1],
             file_type |-> 1, name |-> [i \in 1 .. c.name[1] |-> c.name[2]]])
    ELSE Err("InvalidInput")

\* the items of the entries with a non-zero inode, in order
RECURSIVE LiveItems(_)
LiveItems(cs) ==
    IF cs = <<>> THEN <<>>
    ELSE (IF Head(cs).ino # 0 THEN <<ChunkItem(Head(cs))>> ELSE <<>>)
             \o LiveItems(Tail(cs))

\* C10: the iterator terminates on every buffer: each next() that yields
\* an item consumes at least one byte of the buffer, so at most data.len
\* items are yielded before next() returns None; and on a valid directory
\* block the items yielded are those of the entries with a non-zero inode,
\* each once and in order, and none of an entry with inode 0.
C10_IterTerminatesYieldsLive ==
    /\ Len(iter.items) <= iter.data.len
    /\ Len(iter.items) <= iter.offset
    /\ ValidChain =>
          /\ iter.offset <= iter.data.len
          /\ \E k \in 0 .. Len(hist.chunks) :
                iter.items = LiveItems(SubSeq(hist.chunks, 1, k))
          /\ iter.done => iter.items = LiveItems(hist.chunks)

C10_Witness ==
    /\ iter.done /\ ValidChain
    /\ Len(hist.chunks) = 2
    /\ hist.chunks[1].ino = 0 /\ hist.chunks[2].ino # 0
    /\ Len(iter.items) = 1 /\ IsOk(iter.items[1])

-----------------------------------------------------------------------------
(* Spec: the directory operations on a writable mount of a well-formed     *)
(* image                                                                   *)

\* operations of a run
MaxOps == 3

\* log_block_size of the images: block sizes 1024, 2048 and 4096
BlockLogs == {0, 1, 2}

\* the names "a" and "d"
Names == {<<97>>, <<100>>}

\* inode numbers passed as a directory: the root and the first free inode
Parents == {2, 3}

FileModes == {DEFAULT_FILE}

DirModes == {DEFAULT_DIR}

\* "/", "/n" and "/n/m" for the names n, m
Paths ==
    {<<SLASH>>} \cup {<<SLASH>> \o n : n \in Names}
        \cup {<<SLASH>> \o n \o <<SLASH>> \o m : n \in Names, m \in Names}

\* the process has not panicked
Alive == ret.st # "panic"

\* what an operation returned, for ret
Returned(op, r) == [op |-> op, st |-> r.st, err |-> r.err, v |-> r.v]

Init ==
    /\ overflow_checks = FALSE
    /\ \E log \in BlockLogs, extents \in BOOLEAN :
        /\ Mounted(Image(GoodGeom(log, extents), {}, EmptyBytes), FALSE)
        /\ hist = [geom |-> GoodGeom(log, extents), files |-> {}, dirs |-> {},
                   last |-> [parent |-> 0, name |-> <<>>, before |-> Ok(<<>>)]]
    /\ file = NoFile
    /\ iter = NoIter
    /\ bitmap = NoBitmap
    /\ journal = NoJournal
    /\ ret = Returned("new", Ok(0))
    /\ nops = 0

\* the paths of the directories known under inode number ino
PathsOf(ino) ==
    (IF ino = EXT4_ROOT_INO THEN {<<>>} ELSE {})
        \cup {d.path : d \in {x \in hist.dirs : x.ino = ino}}

\* the history after a create in directory parent returned r: a directory
\* is touched once a create was called on it; last keeps the arguments of
\* the call and read_dir(parent) before it
Created(kind, parent, name, r) ==
    LET made == IF IsOk(r)
                THEN {[path |-> p \o <<SLASH>> \o name, ino |-> r.v,
                       parent |-> parent, name |-> name, touched |-> FALSE] :
                          p \in PathsOf(parent)}
                ELSE {}
        dirs1 == {[d EXCEPT !.touched = @ \/ d.ino = parent] : d \in hist.dirs}
    IN  [hist EXCEPT !.files = IF kind = "file" THEN @ \cup made ELSE @,
                     !.dirs  = IF kind = "dir" THEN dirs1 \cup made ELSE dirs1,
                     !.last  = [parent |-> parent, name |-> name,
                                before |-> read_dir(Fs, parent)]]

\* the state after a create in directory parent returned r
AfterCreate(op, kind, parent, name, r) ==
    /\ device' = r.dev
    /\ ret' = Returned(op, r)
    /\ hist' = Created(kind, parent, name, r)

CreateFile ==
    /\ Alive /\ nops < MaxOps
    /\ \E parent \in Parents, name \in Names, mode \in FileModes :
        AfterCreate("create_file", "file", parent, name,
                    create_file(Fs, parent, name, mode))
    /\ nops' = nops + 1
    /\ UNCHANGED <<overflow_checks, superblock, block_groups, mount_options,
                   mounted, file, iter, bitmap, journal>>

CreateDir ==
    /\ Alive /\ nops < MaxOps
    /\ \E parent \in Parents, name \in Names, mode \in DirModes :
        AfterCreate("create_dir", "dir", parent, name,
                    create_dir(Fs, parent, name, mode))
    /\ nops' = nops + 1
    /\ UNCHANGED <<overflow_checks, superblock, block_groups, mount_options,
                   mounted, file, iter, bitmap, journal>>

FindInode ==
    /\ Alive /\ nops < MaxOps
    /\ \E path \in Paths : ret' = Returned("find_inode", find_inode(Fs, path))
    /\ nops' = nops + 1
    /\ UNCHANGED <<fsVars, file, iter, bitmap, journal, hist>>

ReadDir ==
    /\ Alive /\ nops < MaxOps
    /\ \E ino \in Parents : ret' = Returned("read_dir", read_dir(Fs, ino))
    /\ nops' = nops + 1
    /\ UNCHANGED <<fsVars, file, iter, bitmap, journal, hist>>

Next == CreateFile \/ CreateDir \/ FindInode \/ ReadDir

Spec == Init /\ [][Next]_vars

\* C2: on a writable mount, once create_file(parent, name, mode) has
\* returned n, find_inode of the file's path returns inode n, and a later
\* create_file or create_dir with the same parent and name fails with
\* FileExists.
C2_CreatedFileIsFound ==
    Alive => \A f \in hist.files :
        /\ LET r == find_inode(Fs, f.path) IN IsOk(r) /\ r.v.ino = f.ino
        /\ create_file(Fs, f.parent, f.name, DEFAULT_FILE).err = "FileExists"
        /\ create_dir(Fs, f.parent, f.name, DEFAULT_DIR).err = "FileExists"

\* a file was created in a directory other than the root
C2_Witness ==
    /\ Alive /\ ret.op = "create_file" /\ ret.st = "ok"
    /\ \E f \in hist.files : f.parent # EXT4_ROOT_INO

\* C3: once create_dir has returned n, read_dir(n) gives exactly "." with
\* inode n and ".." with the parent's inode, for the block sizes 1024, 2048
\* and 4096, with and without extents, also after later creates in other
\* directories.
C3_NewDirHasDotAndDotDot ==
    Alive => \A d \in hist.dirs : ~d.touched =>
        LET r == read_dir(Fs, d.ino)
        IN  /\ IsOk(r) /\ Len(r.v) = 2
            /\ r.v[1].name = DOT /\ r.v[1].ino = d.ino
            /\ r.v[2].name = DOTDOT /\ r.v[2].ino = d.parent

\* a directory was created and then something in another directory
C3_Witness ==
    /\ Alive /\ ret.op = "create_file" /\ ret.st = "ok"
    /\ \E d \in hist.dirs : ~d.touched

\* where the rec_len chain of a block that starts at offset ends: the
\* block size if it covers the block, -1 if a rec_len below 8 breaks it
RECURSIVE ChainEnd(_, _, _)
ChainEnd(m, offset, block_size) ==
    IF offset >= block_size THEN offset
    ELSE IF read_u16(m, offset + 4) < 8 THEN -1
    ELSE ChainEnd(m, offset + read_u16(m, offset + 4), block_size)

\* the rec_len chain of every data block of directory ino covers its block
\* exactly
ChainsCover(ino) ==
    LET inode == get_inode(Fs, ino)
        bs    == superblock.block_size
    IN  /\ IsOk(inode)
        /\ \A i \in 0 .. block_count(inode.v, bs) - 1 :
              LET b == get_block_number(inode.v, i * bs, bs, Fs)
              IN  /\ IsOk(b)
                  /\ b.v # 0 => ChainEnd(DevBlock(device, b.v), 0, bs) = bs

\* a create_file or create_dir has just succeeded
JustCreated == Alive /\ ret.op \in {"create_file", "create_dir"} /\ ret.st = "ok"

\* C19: after a successful create_file or create_dir, in every data block
\* of the parent directory and of a newly created directory the entries
\* chain from offset 0 by rec_len and the rec_len values sum to the block
\* size, 1024, 2048 or 4096.
C19_RecLenChainsFillBlocks ==
    JustCreated =>
        /\ ChainsCover(hist.last.parent)
        /\ ret.op = "create_dir" => ChainsCover(ret.v)

\* a directory was created in a 4096-byte-block file system, and the chains
\* of its block and of the root's block cover their blocks
C19_Witness ==
    /\ JustCreated /\ ret.op = "create_dir"
    /\ superblock.block_size = 4096
    /\ hist.last.parent = EXT4_ROOT_INO
    /\ ChainsCover(EXT4_ROOT_INO) /\ ChainsCover(ret.v)
    /\ get_inode(Fs, ret.v).v.block[0] # 0

\* C20: after a successful create_file(parent, name) or create_dir(parent,
\* name), read_dir(parent) is the listing before the call, names, inode
\* numbers and file types in the same order, followed by exactly one new
\* entry for name.
C20_InsertionAppends ==
    JustCreated =>
        LET now    == read_dir(Fs, hist.last.parent)
            before == hist.last.before
        IN  /\ IsOk(before) /\ IsOk(now)
            /\ Len(now.v) = Len(before.v) + 1
            /\ \A i \in 1 .. Len(before.v) :
                  /\ now.v[i].name = before.v[i].name
                  /\ now.v[i].ino = before.v[i].ino
                  /\ now.v[i].file_type = before.v[i].file_type
            /\ now.v[Len(now.v)].name = hist.last.name
            /\ now.v[Len(now.v)].ino = ret.v

\* a second entry was appended to the root after an earlier insertion
C20_Witness ==
    /\ JustCreated
    /\ hist.last.parent = EXT4_ROOT_INO
    /\ Len(hist.last.before.v) = 3
    /\ Len(read_dir(Fs, EXT4_ROOT_INO).v) = 4
    /\ read_dir(Fs, EXT4_ROOT_INO).v[4].name = hist.last.name
    /\ read_dir(Fs, EXT4_ROOT_INO).v[3].name = hist.last.before.v[3].name
    /\ read_dir(Fs, EXT4_ROOT_INO).v[3].ino = hist.last.before.v[3].ino

-----------------------------------------------------------------------------
(* SpecSeek: the seek operations of a File *)

\* seeks of a run
MaxSeeks == 3

\* sizes of the file, targets of seek, offsets of seek_from_current and
\* seek_from_end (i64)
SeekSizes == {0, 10, 2048}

SeekTargets == {0, 10, 2048, 2049}

SeekOffsets == {-100, -20, -1, 0, 1, 100}

InitSeek ==
    /\ overflow_checks = FALSE
    /\ Unmounted
    /\ \E size \in SeekSizes :
        file = File_new([Inode_new(3) EXCEPT !.size = size])
    /\ iter = NoIter
    /\ bitmap = NoBitmap
    /\ journal = NoJournal
    /\ ret = [op |-> "new", arg |-> 0, st |-> "ok", err |-> "", v |-> 0]
    /\ hist = [position |-> 0]
    /\ nops = 0

\* the state after the seek op(arg) returned r; hist keeps the position
\* before the call
AfterSeek(op, arg, r) ==
    /\ file' = r.file
    /\ ret' = [op |-> op, arg |-> arg, st |-> r.st, err |-> r.err, v |-> r.v]
    /\ hist' = [position |-> file.position]
    /\ nops' = nops + 1
    /\ UNCHANGED <<fsVars, iter, bitmap, journal>>

Seek ==
    /\ nops < MaxSeeks
    /\ \E offset \in SeekTargets : AfterSeek("seek", offset, seek(file, offset))

SeekFromCurrent ==
    /\ nops < MaxSeeks
    /\ \E offset \in SeekOffsets :
        AfterSeek("seek_from_current", offset, seek_from_current(file, offset))

SeekFromEnd ==
    /\ nops < MaxSeeks
    /\ \E offset \in SeekOffsets :
        AfterSeek("seek_from_end", offset, seek_from_end(file, offset))

NextSeek == Seek \/ SeekFromCurrent \/ SeekFromEnd

SpecSeek == InitSeek /\ [][NextSeek]_vars

\* the position a seek asks for
SeekTarget ==
    CASE ret.op = "seek" -> ret.arg
      [] ret.op = "seek_from_current" -> hist.position + ret.arg
      [] ret.op = "seek_from_end" -> file.inode.size + ret.arg
      [] OTHER -> 0

\* C5: a seek either fails with InvalidInput and leaves the position
\* unchanged, or sets the position to its target and the target lies in
\* [0, size]; the position is never below 0 nor beyond the size.
C5_SeekStaysWithinFile ==
    /\ file.position >= 0 /\ file.position <= file.inode.size
    /\ ret.op # "new" =>
        \/ /\ ret.st = "err" /\ ret.err = "InvalidInput"
           /\ file.position = hist.position
        \/ /\ ret.st = "ok" /\ ret.v = SeekTarget
           /\ file.position = SeekTarget
           /\ SeekTarget >= 0 /\ SeekTarget <= file.inode.size

\* a seek from the end with a positive offset returned
C5_Witness == ret.op = "seek_from_end" /\ ret.arg > 0

-----------------------------------------------------------------------------
(* SpecRead: File::read of files with zero, out-of-range and unreadable    *)
(* block pointers, on an image whose superblock counts more blocks than    *)
(* the device holds                                                        *)

\* reads and seeks of a run
MaxReads == 3

\* blocks_count of the superblock; the device holds ImgBlocks blocks
ReadBlocksCount == 2 * ImgBlocks

\* the data block of the file and its block of indirect pointers
ReadDataBlock == ImgFirstFree(GoodGeom(0, FALSE)) + 1

ReadIndBlock == ReadDataBlock + 1

\* a pointer below blocks_count that the device cannot read, and one that
\* is out of range
ReadUnreadable == ImgBlocks + 4

ReadOutOfRange == ReadBlocksCount + 8

ReadGeom(extents) ==
    [GoodGeom(0, extents) EXCEPT !.blocks_count = ReadBlocksCount]

\* the bytes of the data block
ReadData == (0 :> 171) @@ (1 :> 205) @@ (1023 :> 239)

\* the block of indirect pointers: entry 0 the data block, entry 1
\* unreadable, entry 2 zero
ReadIndirect ==
    write_u32(write_u32(EmptyBytes, 0, ReadDataBlock), 4, ReadUnreadable)

\* block pointers without extents: block[0] = d0, block[1] the data block,
\* block[12] = ind
ReadPointers(d0, ind) ==
    [i \in 0 .. 14 |->
        CASE i = 0 -> d0
          [] i = 1 -> ReadDataBlock
          [] i = 12 -> ind
          [] OTHER -> 0]

\* a size that ends inside the second block
ReadShortSize == 1024 + 476

\* the files read: the block pointers, the size in blocks, and the logical
\* blocks whose pointer is zero, out of range or unreadable at some level
ReadShapes ==
    {[extents |-> FALSE, block |-> ReadPointers(d0, ind), nblocks |-> 15,
      size |-> 15 * 1024,
      bad |-> (IF d0 = ReadDataBlock THEN {} ELSE {0}) \cup (2 .. 11)
                \cup (IF ind = ReadIndBlock THEN {13, 14} ELSE {12, 13, 14})] :
        d0 \in {0, ReadDataBlock, ReadUnreadable, ReadOutOfRange},
        ind \in {0, ReadIndBlock, ReadUnreadable, ReadOutOfRange}}
    \cup {[extents |-> TRUE, block |-> OneBlock(ReadGeom(TRUE), ReadDataBlock),
           nblocks |-> 2, size |-> 2 * 1024, bad |-> {1}]}
    \cup {[extents |-> FALSE, block |-> ReadPointers(ReadDataBlock, 0),
           nblocks |-> 2, size |-> ReadShortSize, bad |-> {}]}

ReadInode(shape) ==
    [Inode_new(3) EXCEPT !.size = shape.size,
                         !.blocks = shape.nblocks, !.block = shape.block]

ReadImage(shape) ==
    Image(ReadGeom(shape.extents), {ReadInode(shape)},
          (ReadDataBlock :> ReadData) @@ (ReadIndBlock :> ReadIndirect))

InitRead ==
    /\ overflow_checks = FALSE
    /\ \E shape \in ReadShapes :
        /\ Mounted(ReadImage(shape), FALSE)
        /\ file = File_new(ReadInode(shape))
        /\ hist = [bad |-> shape.bad]
    /\ iter = NoIter
    /\ bitmap = NoBitmap
    /\ journal = NoJournal
    /\ ret = [op |-> "new", from |-> 0, len |-> 0, st |-> "ok", err |-> "",
              v |-> 0, data |-> EmptyBuf]
    /\ nops = 0

\* positions sought before a read
ReadPositions == {0, 1000, 2048, 12 * 1024, 13 * 1024 + 1020}

ReadLens == {8, 1024, 1100}

\* the state after op returned r
AfterRead(op, len, r) ==
    /\ file' = r.file
    /\ ret' = [op |-> op, from |-> file.position, len |-> len, st |-> r.st,
               err |-> r.err, v |-> r.v, data |-> r.data]
    /\ nops' = nops + 1
    /\ UNCHANGED <<fsVars, iter, bitmap, journal, hist>>

ReadSeek ==
    /\ nops < MaxReads
    /\ \E offset \in ReadPositions :
        AfterRead("seek", 0, [seek(file, offset) EXCEPT !.v = 0] @@ [data |-> EmptyBuf])

Read ==
    /\ nops < MaxReads
    /\ \E len \in ReadLens : AfterRead("read", len, File_read(file, len, Fs))

NextRead == ReadSeek \/ Read

SpecRead == InitRead /\ [][NextRead]_vars

\* C6: File::read returns Ok whatever the block pointers are, and every
\* byte it delivers from a logical block whose pointer is zero, out of
\* range or unreadable, at any level of the mapping, is zero.
C6_ReadZeroFillsBadBlocks ==
    ret.op = "read" =>
        /\ ret.st = "ok"
        /\ \A i \in 0 .. ret.v - 1 :
            ((ret.from + i) \div 1024) \in hist.bad => Byte(ret.data.m, i) = 0

\* a read crossed a logical block with a bad pointer
C6_Witness ==
    /\ ret.op = "read"
    /\ \E i \in 0 .. ret.len - 1 :
        /\ ret.from + i < file.inode.size
        /\ ((ret.from + i) \div 1024) \in hist.bad

-----------------------------------------------------------------------------
(* SpecTrunc: writes and truncates of one file on a writable mount *)

\* operations of a run
MaxTruncOps == 3

\* sizes passed to truncate, block-aligned or not
TruncSizes == {0, 5, 10, 1024, 1030}

\* positions sought
TruncPositions == {0, 5}

\* the buffers written: bytes of value 7
TruncBufs == {Buf(n, [i \in 0 .. n - 1 |-> 7]) : n \in {4, 10}}

\* the inode of the file: inode 3, empty
TruncInode == Inode_new(3)

InitTrunc ==
    /\ overflow_checks = FALSE
    /\ Mounted(Image(GoodGeom(0, FALSE), {TruncInode}, EmptyBytes), FALSE)
    /\ file = File_new(TruncInode)
    /\ iter = NoIter
    /\ bitmap = NoBitmap
    /\ journal = NoJournal
    /\ ret = [op |-> "new", arg |-> 0, st |-> "ok", err |-> ""]
    /\ hist = [size |-> 0]
    /\ nops = 0

\* the state after op(arg) returned r; hist keeps the size before the call
AfterTrunc(op, arg, r) ==
    /\ device' = r.dev
    /\ file' = r.file
    /\ ret' = [op |-> op, arg |-> arg, st |-> r.st, err |-> r.err]
    /\ hist' = [size |-> file.inode.size]
    /\ nops' = nops + 1
    /\ UNCHANGED <<overflow_checks, superblock, block_groups, mount_options,
                   mounted, iter, bitmap, journal>>

TruncSeek ==
    /\ nops < MaxTruncOps
    /\ \E offset \in TruncPositions :
        AfterTrunc("seek", offset, seek(file, offset) @@ [dev |-> device])

TruncWrite ==
    /\ nops < MaxTruncOps
    /\ \E buf \in TruncBufs :
        AfterTrunc("write", buf.len, File_write(file, buf, Fs))

Truncate ==
    /\ nops < MaxTruncOps
    /\ \E new_size \in TruncSizes :
        AfterTrunc("truncate", new_size, truncate(file, new_size, Fs))

NextTrunc == TruncSeek \/ TruncWrite \/ Truncate

SpecTrunc == InitTrunc /\ [][NextTrunc]_vars

\* the bytes [from, to) of the file as File::read delivers them are zero
ReadsZero(r, n) ==
    /\ IsOk(r)
    /\ r.v = n
    /\ \A i \in 0 .. n - 1 : Byte(r.data.m, i) = 0

\* C7: after truncate(new_size) succeeded with new_size above the old
\* size, size() is new_size and every byte in [old size, new_size) reads
\* back as zero.
C7_ExpandedBytesReadZero ==
    (ret.op = "truncate" /\ ret.st = "ok" /\ ret.arg > hist.size) =>
        /\ file.inode.size = ret.arg
        /\ ReadsZero(File_read([file EXCEPT !.position = hist.size],
                               ret.arg - hist.size, Fs),
                     ret.arg - hist.size)

\* a truncate enlarged a file that had been written
C7_Witness ==
    /\ ret.op = "truncate" /\ ret.st = "ok" /\ ret.arg > hist.size
    /\ hist.size > 0
    /\ DOMAIN device.data # DOMAIN Image(GoodGeom(0, FALSE), {TruncInode}, EmptyBytes).data

\* the inode the device holds for the file
TruncStored == get_inode(Fs, file.inode.ino)

\* C16: after every successful File::write and File::truncate, the inode
\* get_inode(ino) reads from the device has the size and the 15 block
\* pointers of the File's in-memory inode.
C16_InodeWrittenBack ==
    (ret.op \in {"write", "truncate"} /\ ret.st = "ok") =>
        /\ TruncStored.st = "ok"
        /\ TruncStored.v.size = file.inode.size
        /\ TruncStored.v.block = file.inode.block

\* a write that allocated a block left the device and the File agreeing
C16_Witness ==
    /\ ret.op = "write" /\ ret.st = "ok"
    /\ file.inode.size > 0 /\ file.inode.block[0] # 0
    /\ TruncStored.v.size = file.inode.size
    /\ TruncStored.v.block = file.inode.block

-----------------------------------------------------------------------------
(* SpecMap: Inode::get_block_number on images of 1024-byte blocks, with    *)
(* indirect pointer blocks or with extent trees                            *)

\* lookups of a run
MaxLookups == 2

\* pointers per block, and the first logical block of the doubly and of
\* the triply indirect range
MapPpb == 1024 \div 4

MapDouble == 12 + MapPpb

MapTriple == 12 + MapPpb + MapPpb * MapPpb

\* a data block, the blocks of single, double and triple indirect
\* pointers, and a block number that is out of range
MapData == ReadDataBlock

MapInd == ReadIndBlock

MapDind == MapInd + 1

MapTind == MapDind + 1

MapOutOfRange == ReadOutOfRange

\* a pointer block: entry 0 = first, entry 1 zero, entry 2 out of range,
\* entry 255 = last
MapPointerBlock(first, last) ==
    write_u32(write_u32(write_u32(EmptyBytes, 0, first), 8, MapOutOfRange),
              4 * 255, last)

\* the pointer blocks: the doubly indirect block refers to the singly
\* indirect one, the triply indirect to the doubly indirect
MapBlocks ==
    (MapData :> (0 :> 1)) @@ (MapInd :> MapPointerBlock(MapData, MapData))
        @@ (MapDind :> MapPointerBlock(MapInd, 0))
        @@ (MapTind :> MapPointerBlock(MapDind, 0))

MapPointers(ind, dind, tind) ==
    [i \in 0 .. 14 |->
        CASE i \in {0, 11} -> MapData
          [] i = 2 -> MapOutOfRange
          [] i = 12 -> ind
          [] i = 13 -> dind
          [] i = 14 -> tind
          [] OTHER -> 0]

\* the extents of the leaves: (first, len, start)
MapExtentLists ==
    {<< <<0, 3, 100>> >>, << <<2, 2, 9>> >>, << <<0, 1, 9>>, <<5, 2, 12>> >>}

\* ext4_extent_header as three words: magic and entries, max and depth,
\* generation
MapHeader(entries, depth) ==
    <<EXT4_EXT_MAGIC + 65536 * entries, 4 + 65536 * depth, 0>>

\* ext4_extent as three words: ee_block; ee_len and ee_start_hi;
\* ee_start_lo
MapExtentWords(e) == <<e[1], e[2], e[3]>>

RECURSIVE MapLeafWords(_)
MapLeafWords(es) ==
    IF es = <<>> THEN <<>>
    ELSE MapExtentWords(Head(es)) \o MapLeafWords(Tail(es))

\* a leaf node in the on-disk layout, as words
MapLeaf(es) == MapHeader(Len(es), 0) \o MapLeafWords(es)

\* a root index node whose one entry refers to the leaf in block MapInd:
\* ei_block, ei_leaf_lo, ei_leaf_hi
MapIndexRoot == MapHeader(1, 1) \o <<0, MapInd, 0>>

\* an index node whose one entry, for the logical blocks from 0 on, refers
\* to the node in block child
MapIndexTo(child) == MapHeader(1, 1) \o <<0, child, 0>>

\* words as the block array of an inode, and as the bytes of a block
WordsBlock(ws) == [i \in 0 .. 14 |-> IF i < Len(ws) THEN ws[i + 1] ELSE 0]

RECURSIVE WordsBytes(_, _)
WordsBytes(ws, i) ==
    IF i > Len(ws) THEN EmptyBytes
    ELSE write_u32(WordsBytes(ws, i + 1), 4 * (i - 1), ws[i])

\* the files looked up: the block pointers, the blocks of the device
\* beside the image's, and for an extent tree its extents and where the
\* leaf is
MapShapes ==
    {[extents |-> FALSE, block |-> MapPointers(ind, dind, tind),
      blocks |-> MapBlocks, leaf |-> <<>>, place |-> "none"] :
        ind \in {0, MapInd, MapOutOfRange},
        dind \in {0, MapDind, MapOutOfRange},
        tind \in {0, MapTind, MapOutOfRange}}
    \cup {[extents |-> TRUE, block |-> WordsBlock(MapLeaf(es)),
           blocks |-> EmptyBytes, leaf |-> es, place |-> "inode"] :
            es \in MapExtentLists}
    \cup {[extents |-> TRUE, block |-> WordsBlock(MapIndexRoot),
           blocks |-> (MapInd :> WordsBytes(MapLeaf(es), 1)), leaf |-> es,
           place |-> "block under an index root"] : es \in MapExtentLists}
    \cup {[extents |-> TRUE, block |-> WordsBlock(<<MapInd>>),
           blocks |-> (MapInd :> WordsBytes(MapLeaf(es), 1)), leaf |-> es,
           place |-> "block named by block[0]"] : es \in MapExtentLists}
    \cup {[extents |-> TRUE, block |-> WordsBlock(<<MapInd>>),
           blocks |-> (MapInd :> WordsBytes(MapIndexTo(MapInd), 1)),
           leaf |-> <<>>, place |-> "index node naming itself"],
          [extents |-> TRUE, block |-> WordsBlock(<<MapInd>>),
           blocks |-> (MapInd :> WordsBytes(MapIndexTo(MapDind), 1))
                        @@ (MapDind :> WordsBytes(MapIndexTo(MapInd), 1)),
           leaf |-> <<>>, place |-> "index node naming its parent"]}

MapInode(shape) ==
    [Inode_new(3) EXCEPT !.size = 1024, !.blocks = 1, !.block = shape.block]

\* the logical blocks looked up
MapIndexes ==
    (0 .. 7) \cup {11, 12, 13, 14, 12 + 255}
        \cup {MapDouble, MapDouble + 1, MapDouble + 2, MapDouble + 255,
              MapDouble + MapPpb, MapDouble + 2 * MapPpb}
        \cup {MapTriple, MapTriple + 2, MapTriple + MapPpb,
              MapTriple + 2 * MapPpb, MapTriple + MapPpb * MapPpb,
              MapTriple + 2 * MapPpb * MapPpb}

InitMap ==
    /\ overflow_checks = FALSE
    /\ \E shape \in MapShapes :
        /\ Mounted(Image(GoodGeom(0, shape.extents), {MapInode(shape)},
                         shape.blocks), FALSE)
        /\ file = File_new(MapInode(shape))
        /\ hist = [extents |-> shape.extents, leaf |-> shape.leaf,
                   place |-> shape.place]
    /\ iter = NoIter
    /\ bitmap = NoBitmap
    /\ journal = NoJournal
    /\ ret = [op |-> "new", li |-> 0, st |-> "ok", err |-> "", v |-> 0]
    /\ nops = 0

GetBlockNumber ==
    /\ nops < MaxLookups
    /\ \E li \in MapIndexes :
        ret' = [op |-> "get_block_number", li |-> li]
                 @@ get_block_number(file.inode, li * 1024, 1024, Fs)
    /\ nops' = nops + 1
    /\ UNCHANGED <<fsVars, file, iter, bitmap, journal, hist>>

NextMap == GetBlockNumber

SpecMap == InitMap /\ [][NextMap]_vars

\* a block number that is zero or not below blocks_count counts as 0
MapValid(p) == IF p = 0 \/ p >= superblock.blocks_count THEN 0 ELSE p

\* entry i of the pointer block b, 0 where b is no valid block
MapEntry(b, i) ==
    IF MapValid(b) = 0 THEN 0
    ELSE MapValid(read_u32(DevBlock(device, b), 4 * i))

\* the block of logical block li by the traditional mapping
MapLookup(block, li) ==
    IF li < 12 THEN MapValid(block[li])
    ELSE IF li < MapDouble THEN MapEntry(block[12], li - 12)
    ELSE IF li < MapTriple
    THEN MapEntry(MapEntry(block[13], (li - MapDouble) \div MapPpb),
                  (li - MapDouble) % MapPpb)
    ELSE MapEntry(MapEntry(MapEntry(block[14],
                                    (li - MapTriple) \div (MapPpb * MapPpb)),
                           ((li - MapTriple) % (MapPpb * MapPpb)) \div MapPpb),
                  (li - MapTriple) % MapPpb)

\* C8: without INCOMPAT_EXTENTS get_block_number returns the direct
\* pointer, or the one-, two- or three-level lookup through block[12],
\* block[13] or block[14]; a zero pointer at any level, and a block number
\* at any level that is not below blocks_count, yields Ok(0), never an
\* error.
C8_TraditionalMapping ==
    (ret.op = "get_block_number" /\ ~hist.extents) =>
        /\ ret.st = "ok"
        /\ ret.v = MapLookup(file.inode.block, ret.li)

\* a three-level lookup found a block
C8_Witness ==
    /\ ret.op = "get_block_number" /\ ~hist.extents
    /\ ret.li >= MapTriple
    /\ MapLookup(file.inode.block, ret.li) # 0

\* the extents of the leaf that cover logical block li
MapCover(li) ==
    {i \in DOMAIN hist.leaf :
        li >= hist.leaf[i][1] /\ li < hist.leaf[i][1] + hist.leaf[i][2]}

\* C9: with INCOMPAT_EXTENTS, for a leaf in the on-disk layout, in the
\* inode or in its own block, get_block_number returns start + (L - first)
\* for every L in an extent (first, len, start) and BlockNotFound for
\* every L covered by no extent.
C9_ExtentLeafLookup ==
    (ret.op = "get_block_number" /\ hist.extents) =>
        IF MapCover(ret.li) = {}
        THEN ret.st = "err" /\ ret.err = "BlockNotFound"
        ELSE /\ ret.st = "ok"
             /\ \E i \in MapCover(ret.li) :
                 ret.v = hist.leaf[i][3] + (ret.li - hist.leaf[i][1])

\* a logical block inside an extent was looked up
C9_Witness ==
    /\ ret.op = "get_block_number" /\ hist.extents
    /\ MapCover(ret.li) # {}

-----------------------------------------------------------------------------
(* SpecRO: the operations on a read-only mount of an image that holds a    *)
(* file with a direct and an indirect block                                *)

\* operations of a run
MaxROOps == 2

\* the file: blocks 0, 1 and 12 are mapped, the last through block[12]
ROInode ==
    [Inode_new(3) EXCEPT !.size = 13 * 1024, !.blocks = 13,
                         !.block = ReadPointers(ReadDataBlock, ReadIndBlock)]

ROImage(log, extents) ==
    Image(GoodGeom(log, extents), {ROInode},
          (ReadDataBlock :> ReadData) @@ (ReadIndBlock :> ReadIndirect))

\* block sizes 1024 and 4096
ROLogs == {0, 2}

InitRO ==
    /\ overflow_checks = FALSE
    /\ \E log \in ROLogs, extents \in BOOLEAN :
        /\ Mounted(ROImage(log, extents), TRUE)
        /\ hist = [image |-> ROImage(log, extents)]
    /\ file = File_new(ROInode)
    /\ iter = NoIter
    /\ bitmap = NoBitmap
    /\ journal = NoJournal
    /\ ret = [op |-> "new", arg |-> 0, st |-> "ok", err |-> ""]
    /\ nops = 0

\* the state after op(arg) returned r and left the device dev and the
\* file f
AfterRO(op, arg, r, dev, f) ==
    /\ device' = dev
    /\ file' = f
    /\ ret' = [op |-> op, arg |-> arg, st |-> r.st, err |-> r.err]
    /\ nops' = nops + 1
    /\ UNCHANGED <<overflow_checks, superblock, block_groups, mount_options,
                   mounted, iter, bitmap, journal, hist>>

\* the state after an operation of the file system returned r
AfterROFs(op, arg, r) == AfterRO(op, arg, r, r.dev, file)

\* the state after an operation of the file returned r
AfterROFile(op, arg, r) == AfterRO(op, arg, r, r.dev, r.file)

\* blocks written, and the buffers: one block, and four bytes
ROBlocks == {0, ReadDataBlock, ReadOutOfRange}

ROBufLens == {4, 1024, 4096}

ROWriteBlock ==
    /\ Alive /\ nops < MaxROOps
    /\ \E block \in ROBlocks, len \in ROBufLens :
        AfterROFs("write_block", block, write_block(Fs, block, 0 :> 1, len))

ROAllocBlock ==
    /\ Alive /\ nops < MaxROOps
    /\ AfterRO("alloc_block", 0, alloc_block(Fs), device, file)

ROAllocInode ==
    /\ Alive /\ nops < MaxROOps
    /\ AfterRO("alloc_inode", 0, alloc_inode(Fs), device, file)

ROCreateFile ==
    /\ Alive /\ nops < MaxROOps
    /\ \E parent \in Parents, name \in Names :
        AfterROFs("create_file", parent,
                  create_file(Fs, parent, name, DEFAULT_FILE))

ROCreateDir ==
    /\ Alive /\ nops < MaxROOps
    /\ \E parent \in Parents, name \in Names :
        AfterROFs("create_dir", parent,
                  create_dir(Fs, parent, name, DEFAULT_DIR))

\* positions sought: in a mapped block, in a hole, in the indirect range
ROPositions == {0, 2048, 12 * 1024}

ROSeek ==
    /\ Alive /\ nops < MaxROOps
    /\ \E offset \in ROPositions :
        AfterROFile("seek", offset, seek(file, offset) @@ [dev |-> device])

ROWrite ==
    /\ Alive /\ nops < MaxROOps
    /\ \E n \in {4, 1030} :
        AfterROFile("write", n,
                    File_write(file, Buf(n, [i \in 0 .. n - 1 |-> 7]), Fs))

\* sizes passed to truncate
ROSizes == {0, 1024, 12 * 1024, 14 * 1024}

ROTruncate ==
    /\ Alive /\ nops < MaxROOps
    /\ \E new_size \in ROSizes :
        AfterROFile("truncate", new_size, truncate(file, new_size, Fs))

NextRO ==
    \/ ROWriteBlock \/ ROAllocBlock \/ ROAllocInode \/ ROCreateFile
    \/ ROCreateDir \/ ROSeek \/ ROWrite \/ ROTruncate

SpecRO == InitRO /\ [][NextRO]_vars

\* C4: on a read-only mount write_block, alloc_block, alloc_inode,
\* create_file and create_dir return ReadOnly, and no operation, File::write
\* and File::truncate included, changes a block of the device.
C4_ReadOnlyMountNeverWrites ==
    /\ device = hist.image
    /\ ret.op \in {"write_block", "alloc_block", "alloc_inode", "create_file",
                   "create_dir"} => (ret.st = "err" /\ ret.err = "ReadOnly")

\* File::write into a mapped block, and a truncate that clears a pointer
\* in the indirect block, were refused
C4_Witness ==
    \/ /\ ret.op = "write" /\ ret.st = "err" /\ ret.err = "ReadOnly"
       /\ file.position = 0 /\ ~uses_extents(Fs)
    \/ /\ ret.op = "truncate" /\ ret.arg = 12 * 1024 /\ ~uses_extents(Fs)
       /\ ret.err = "ReadOnly"

-----------------------------------------------------------------------------
(* SpecGeom: open and the public operations on images whose superblock     *)
(* holds a degenerate geometry, in builds with and without overflow checks *)

\* operations of a run, the open included
MaxGeomOps == 3

\* the well-formed geometry, and the same with one field changed
GeomCases ==
    {GoodGeom(2, FALSE),
     [GoodGeom(2, FALSE) EXCEPT !.blocks_per_group = 0],
     [GoodGeom(2, FALSE) EXCEPT !.inodes_per_group = 0],
     [GoodGeom(2, FALSE) EXCEPT !.inode_size = 0],
     [GoodGeom(2, FALSE) EXCEPT !.inode_size = 128],
     [GoodGeom(0, FALSE) EXCEPT !.log = 32]}

\* the errors of Ext4Error
Ext4Errors ==
    {"InvalidMagic", "InvalidState", "InodeNotFound", "BlockNotFound",
     "InvalidPath", "FileExists", "DirNotEmpty", "NotADirectory",
     "IsADirectory", "InvalidInput", "IoError", "NoSpaceLeft", "ReadOnly",
     "InvalidArg", "NotSupported"}

InitGeom ==
    /\ overflow_checks \in BOOLEAN
    /\ \E g \in GeomCases :
        /\ device = Image(g, {}, EmptyBytes)
        /\ hist = [geom |-> g]
    /\ superblock = NoFs
    /\ block_groups = <<>>
    /\ mount_options = MountOptions(FALSE)
    /\ mounted = FALSE
    /\ file = NoFile
    /\ iter = NoIter
    /\ bitmap = NoBitmap
    /\ journal = NoJournal
    /\ ret = Returned("new", Ok(0))
    /\ nops = 0

\* the state after Ext4FileSystem::new returned m
AfterOpen(m) ==
    /\ ret' = [Returned("open", m) EXCEPT !.v = 0]
    /\ mounted' = IsOk(m)
    /\ superblock' = IF IsOk(m) THEN m.v.superblock ELSE superblock
    /\ block_groups' = IF IsOk(m) THEN m.v.block_groups ELSE block_groups
    /\ nops' = nops + 1
    /\ UNCHANGED <<overflow_checks, device, mount_options, file, iter, bitmap, journal, hist>>

Open ==
    /\ ~mounted /\ nops = 0
    /\ AfterOpen(new(device, overflow_checks))

\* an operation of the mounted file system may be called
GeomReady == mounted /\ Alive /\ nops < MaxGeomOps

\* the state after an operation that reads returned r
AfterGeomRead(op, r) ==
    /\ ret' = Returned(op, r)
    /\ nops' = nops + 1
    /\ UNCHANGED <<fsVars, file, iter, bitmap, journal, hist>>

GeomStats == GeomReady /\ AfterGeomRead("stats", stats(Fs))

GeomFindInode ==
    /\ GeomReady
    /\ \E path \in {<<SLASH>>, <<SLASH, 97>>} :
        AfterGeomRead("find_inode", find_inode(Fs, path))

GeomReadDir == GeomReady /\ AfterGeomRead("read_dir", read_dir(Fs, EXT4_ROOT_INO))

\* inode numbers asked for: none, the root, the first free, one beyond
\* the table
GeomInos == {0, 2, 3, 9}

\* the state after get_inode(ino) returned r: the caller makes a File of
\* the inode
AfterGetInode(r) ==
    /\ ret' = Returned("get_inode", r)
    /\ file' = IF IsOk(r) THEN File_new(r.v) ELSE file
    /\ nops' = nops + 1
    /\ UNCHANGED <<fsVars, iter, bitmap, journal, hist>>

GeomGetInode ==
    /\ GeomReady
    /\ \E ino \in GeomInos : AfterGetInode(get_inode(Fs, ino))

\* the state after a create returned r
AfterGeomCreate(op, r) ==
    /\ device' = r.dev
    /\ ret' = Returned(op, r)
    /\ nops' = nops + 1
    /\ UNCHANGED <<overflow_checks, superblock, block_groups, mount_options,
                   mounted, file, iter, bitmap, journal, hist>>

GeomCreateFile ==
    /\ GeomReady
    /\ AfterGeomCreate("create_file",
                       create_file(Fs, EXT4_ROOT_INO, <<97>>, DEFAULT_FILE))

GeomCreateDir ==
    /\ GeomReady
    /\ AfterGeomCreate("create_dir",
                       create_dir(Fs, EXT4_ROOT_INO, <<97>>, DEFAULT_DIR))

\* the state after an operation of the File returned r and left the
\* device dev
AfterGeomFile(op, r, dev) ==
    /\ device' = dev
    /\ file' = r.file
    /\ ret' = Returned(op, r)
    /\ nops' = nops + 1
    /\ UNCHANGED <<overflow_checks, superblock, block_groups, mount_options,
                   mounted, iter, bitmap, journal, hist>>

GeomSeek ==
    /\ GeomReady /\ file # NoFile
    /\ \E offset \in {0, 12} : AfterGeomFile("seek", seek(file, offset), device)

GeomRead ==
    /\ GeomReady /\ file # NoFile
    /\ AfterGeomFile("read", File_read(file, 16, Fs), device)

\* the state after an operation of the File that writes returned r
AfterGeomWrite(op, r) == AfterGeomFile(op, r, r.dev)

GeomWrite ==
    /\ GeomReady /\ file # NoFile
    /\ AfterGeomWrite("write", File_write(file, Buf(4, [i \in 0 .. 3 |-> 7]), Fs))

GeomTruncate ==
    /\ GeomReady /\ file # NoFile
    /\ \E new_size \in {0, 8192} :
        AfterGeomWrite("truncate", truncate(file, new_size, Fs))

NextGeom ==
    \/ Open \/ GeomStats \/ GeomFindInode \/ GeomReadDir \/ GeomGetInode
    \/ GeomCreateFile \/ GeomCreateDir \/ GeomSeek \/ GeomRead \/ GeomWrite
    \/ GeomTruncate

SpecGeom == InitGeom /\ [][NextGeom]_vars

\* C1: every public operation returns its result or one error of
\* Ext4Error, whatever the geometry of the superblock and the arguments;
\* none panics.
C1_OperationsAreTotal ==
    /\ ret.st \in {"ok", "err"}
    /\ ret.st = "err" => ret.err \in Ext4Errors

\* an operation returned on a mount whose superblock has a changed field
C1_Witness ==
    /\ mounted /\ ret.op \notin {"new", "open"}
    /\ hist.geom # GoodGeom(2, FALSE)


-----------------------------------------------------------------------------
(* bitmap.rs: the Bitmap object { data, size } *)

\* Bitmap::new(size): (size + 7) / 8 zero bytes
Bitmap_new(size) == [data |-> Buf((size + 7) \div 8, EmptyBytes), size |-> size]

\* Bitmap::is_set(bit)
Bitmap_is_set(bm, bit) ==
    IF bit >= bm.size THEN FALSE ELSE is_set(bm.data.m, bit)

\* what set and clear return: the result and the bitmap they leave
WithBitmap(r, bm) == [st |-> r.st, err |-> r.err, v |-> r.v, bitmap |-> bm]

\* Bitmap::set(bit): data[bit / 8] |= 1 << (bit % 8)
Bitmap_set(bm, bit) ==
    IF bit >= bm.size THEN WithBitmap(Err("InvalidInput"), bm)
    ELSE WithBitmap(Ok(0),
             [bm EXCEPT !.data.m = write_u8(@, bit \div 8,
                 BitOr(Byte(@, bit \div 8), Pow2(bit % 8)))])

\* Bitmap::clear(bit): data[bit / 8] &= !(1 << (bit % 8))
Bitmap_clear(bm, bit) ==
    IF bit >= bm.size THEN WithBitmap(Err("InvalidInput"), bm)
    ELSE WithBitmap(Ok(0),
             [bm EXCEPT !.data.m = write_u8(@, bit \div 8,
                 BitAnd(Byte(@, bit \div 8), 255 - Pow2(bit % 8)))])

\* Option<usize>
NoBit == [some |-> FALSE, bit |-> 0]

SomeBit(bit) == [some |-> TRUE, bit |-> bit]

\* a find_first_free that takes every bit of every byte for a bit of the
\* bitmap (a variant the search is compared with)
RECURSIVE find_first_free_unsized(_, _)
find_first_free_unsized(bm, byte_index) ==
    IF byte_index >= bm.data.len THEN NoBit
    ELSE
        LET free == {bit \in byte_index * 8 .. byte_index * 8 + 7 :
                        ~is_set(bm.data.m, bit)}
        IN  IF Byte(bm.data.m, byte_index) # 255 /\ free # {}
            THEN SomeBit(CHOOSE bit \in free : \A b \in free : bit <= b)
            ELSE find_first_free_unsized(bm, byte_index + 1)

\* Bitmap::find_first_free, the loop from byte byte_index on: in a byte
\* other than 0xFF, the first bit with bit < size && !is_set(bit)
RECURSIVE Bitmap_find_first_free_from(_, _)
Bitmap_find_first_free_from(bm, byte_index) ==
    IF byte_index >= bm.data.len THEN NoBit
    ELSE
        LET free == {bit \in byte_index * 8 .. byte_index * 8 + 7 :
                        bit < bm.size /\ ~Bitmap_is_set(bm, bit)}
        IN  IF Byte(bm.data.m, byte_index) # 255 /\ free # {}
            THEN SomeBit(CHOOSE bit \in free : \A b \in free : bit <= b)
            ELSE Bitmap_find_first_free_from(bm, byte_index + 1)

Bitmap_find_first_free(bm) == Bitmap_find_first_free_from(bm, 0)

\* u8::count_ones
RECURSIVE count_ones(_)
count_ones(byte) == IF byte = 0 THEN 0 ELSE (byte % 2) + count_ones(byte \div 2)

\* the sum of (!byte).count_ones() over data[byte_index ..]
RECURSIVE CountClear(_, _)
CountClear(data, byte_index) ==
    IF byte_index >= data.len THEN 0
    ELSE count_ones(255 - Byte(data.m, byte_index))
             + CountClear(data, byte_index + 1)

\* Bitmap::count_free(): the clear bits of all bytes, less the SET bits of
\* the last byte above size % 8
Bitmap_count_free(bm) ==
    LET count     == CountClear(bm.data, 0)
        remainder == bm.size % 8
        mask      == Pow2(remainder) - 1
    IN  IF remainder # 0
        THEN count - count_ones(BitAnd(Byte(bm.data.m, bm.data.len - 1),
                                       255 - mask))
        ELSE count

\* Bitmap::count_set(): size - count_free() in usize.  A subtraction that
\* goes below zero panics when overflow is checked and wraps otherwise; a
\* wrapped value v + 2^64 is written as its residue v < 0.
Bitmap_count_set(bm, checks) ==
    IF bm.size < Bitmap_count_free(bm) /\ checks
    THEN Panic("attempt to subtract with overflow")
    ELSE Ok(bm.size - Bitmap_count_free(bm))

-----------------------------------------------------------------------------
(* Specification SpecBitmap: a Bitmap::new(n) under set, clear and the
   queries *)

MaxBit == 10

BitmapSizes == {0, 3, 8, 9}

BitmapBits == 0 .. MaxBit

InitBitmap ==
    /\ overflow_checks \in BOOLEAN
    /\ Unmounted
    /\ file = NoFile
    /\ iter = NoIter
    /\ journal = NoJournal
    /\ ret = NoRet
    /\ nops = 0
    /\ \E n \in BitmapSizes :
        /\ bitmap = Bitmap_new(n)
        /\ hist = [op |-> "new", arg |-> n, before |-> Bitmap_new(n)]

AfterBitmap(op, arg, r, bm) ==
    /\ bitmap' = bm
    /\ ret' = r
    /\ hist' = [op |-> op, arg |-> arg, before |-> bitmap]
    /\ UNCHANGED <<fsVars, file, iter, journal, nops>>

AfterBitmapUpdate(op, arg, r) ==
    AfterBitmap(op, arg, [st |-> r.st, err |-> r.err, v |-> r.v], r.bitmap)

BitmapSet == \E bit \in BitmapBits :
    AfterBitmapUpdate("set", bit, Bitmap_set(bitmap, bit))

BitmapClear == \E bit \in BitmapBits :
    AfterBitmapUpdate("clear", bit, Bitmap_clear(bitmap, bit))

BitmapFindFirstFree ==
    AfterBitmap("find_first_free", 0, Bitmap_find_first_free(bitmap), bitmap)

BitmapCountFree ==
    AfterBitmap("count_free", 0, Ok(Bitmap_count_free(bitmap)), bitmap)

BitmapCountSet ==
    AfterBitmap("count_set", 0, Bitmap_count_set(bitmap, overflow_checks),
                bitmap)

NextBitmap ==
    \/ BitmapSet
    \/ BitmapClear
    \/ BitmapFindFirstFree
    \/ BitmapCountFree
    \/ BitmapCountSet

SpecBitmap == InitBitmap /\ [][NextBitmap]_vars

\* the indices below size whose bit is_set reports clear
ClearBits(bm) == {i \in 0 .. bm.size - 1 : ~Bitmap_is_set(bm, i)}

\* C11: on a Bitmap::new(n) after any sets and clears, find_first_free
\* returns the lowest clear index below n, and None exactly when every bit
\* below n is set; set(i) and clear(i) with i >= n fail with InvalidInput
\* and change no bit.
C11_FindFirstFreeIsLowestClear ==
    /\ hist.op = "find_first_free" =>
          /\ ret.some <=> ClearBits(bitmap) # {}
          /\ ret.some =>
                /\ ret.bit \in ClearBits(bitmap)
                /\ \A i \in ClearBits(bitmap) : ret.bit <= i
    /\ hist.op \in {"set", "clear"} /\ hist.arg >= bitmap.size =>
          /\ ret.st = "err" /\ ret.err = "InvalidInput"
          /\ bitmap = hist.before

\* find_first_free returned None on a bitmap of 3 bits, all set, whose byte
\* is not 0xFF
C11_Witness ==
    /\ hist.op = "find_first_free"
    /\ bitmap.size = 3
    /\ ClearBits(bitmap) = {}
    /\ ~ret.some

\* C12: on a Bitmap::new(n), n a multiple of 8 or not, count_free() is the
\* number of indices below n that are clear, and count_set() is n less that
\* number, computed without underflow.
C12_CountsMatchBits ==
    /\ hist.op = "count_free" => ret.v = Cardinality(ClearBits(bitmap))
    /\ hist.op = "count_set" =>
          /\ ret.st = "ok"
          /\ ret.v = bitmap.size - Cardinality(ClearBits(bitmap))

\* count_free and count_set are right on a bitmap of 8 bits
C12_Witness ==
    /\ hist.op = "count_set"
    /\ bitmap.size = 8
    /\ ret.st = "ok"
    /\ ret.v = 8 - Cardinality(ClearBits(bitmap))
    /\ ret.v > 0


-----------------------------------------------------------------------------
(* Specification SpecOpen: Ext4FileSystem::new on superblocks that differ
   in magic, log_block_size and state *)

\* s_log_block_size: the three supported sizes, sizes too large, shifts
\* that leave nothing of 1024 in 32 bits, and a shift by the whole width
OpenLogs == {0, 1, 2, 3, 20, 22, 31, 32}

\* s_magic: 0xEF53, and two others
OpenMagics == {61267, 0, 61268}

\* s_state: clean (1), and not clean
OpenStates == {0, 1, 2}

\* the device with the width bytes at offset off of its superblock set
WithSuperField(dev, off, width, value) ==
    LET b == 1024 \div dev.block_size
        o == (1024 % dev.block_size) + off
    IN  DevPut(dev, b, Splice(DevBlock(dev, b), o, width, LeBytes(value, width)))

InitOpen ==
    /\ overflow_checks \in BOOLEAN
    /\ \E log \in OpenLogs : \E magic \in OpenMagics : \E state \in OpenStates :
        /\ device = WithSuperField(
                        WithSuperField(Image(GoodGeom(log, FALSE), {}, EmptyBytes),
                                       56, 2, magic),
                        58, 2, state)
        /\ hist = [log |-> log, magic |-> magic, state |-> state]
    /\ superblock = NoFs
    /\ block_groups = <<>>
    /\ mount_options = MountOptions(FALSE)
    /\ mounted = FALSE
    /\ file = NoFile
    /\ iter = NoIter
    /\ bitmap = NoBitmap
    /\ journal = NoJournal
    /\ ret = Returned("new", Ok(0))
    /\ nops = 0

SpecOpen == InitOpen /\ [][Open]_vars

\* C13: open succeeds only if the magic is 0xEF53 and 1024 << log_block_size
\* is 1024, 2048 or 4096; a wrong magic yields InvalidMagic, a wrong block
\* size yields InvalidState, and the state field never makes open fail.
C13_OpenValidatesMagicAndBlockSize ==
    ret.op = "open" =>
        /\ ret.st = "ok" => hist.magic = 61267 /\ hist.log \in {0, 1, 2}
        /\ hist.magic # 61267 => ret.st = "err" /\ ret.err = "InvalidMagic"
        /\ hist.magic = 61267 /\ hist.log \notin {0, 1, 2} =>
              ret.st = "err" /\ ret.err = "InvalidState"
        /\ hist.magic = 61267 /\ hist.log \in {0, 1, 2} => ret.st = "ok"

\* a file system whose state is not clean was opened
C13_Witness ==
    /\ ret.op = "open" /\ ret.st = "ok"
    /\ hist.state # 1
    /\ superblock.state = hist.state
    /\ superblock.block_size = 2048


-----------------------------------------------------------------------------
(* Specification SpecInode: an Inode, its image and the inode parsed back.
   Inode.size is a u64; here it is the pair of its 32-bit words. *)

\* the u64 (hi << 32) | lo
U64(hi, lo) == [hi |-> hi, lo |-> lo]

\* Inode::from_bytes with the size as a u64:
\* size = ((size_high as u64) << 32) | (size_lo as u64)
Inode_from_bytes64(data, len, ino) ==
    LET r == Inode_from_bytes(data, len, ino)
    IN  IF ~IsOk(r) THEN r
        ELSE Ok([r.v EXCEPT !.size = U64(r.v.size_high, r.v.size)])

\* Inode::to_bytes of an inode whose size is a u64: the image, with
\* self.size as u32 at offset 4 and the FIELD size_high at offset 140
Inode_to_bytes64(inode) ==
    Buf(InodeImageLen, Inode_to_bytes([inode EXCEPT !.size = inode.size.lo]))

\* operations on one inode
MaxInodeOps == 3

\* sizes below and from 2^32 on
InodeSizes == {U64(0, 0), U64(0, 1024), U64(1, 0), U64(1, 1024)}

\* (uid, gid, links_count, flags, blocks)
InodeFields == {<<0, 0, 1, 0, 0>>, <<1000, 100, 2, 524288, 8>>,
                <<65535, 65535, 65535, 1, 2048>>}

InodeModes == {IFREG, DEFAULT_FILE, DEFAULT_DIR, 65535}

InodePointers == {0, 7, 16777216}

\* the inodes the run starts from: Inode::new, and inodes read from an
\* image whose size has a high word
InitInode ==
    /\ overflow_checks = FALSE
    /\ Unmounted
    /\ iter = NoIter
    /\ bitmap = NoBitmap
    /\ journal = NoJournal
    /\ ret = NoRet
    /\ nops = 0
    /\ hist = [op |-> "new", image |-> EmptyBuf]
    /\ \E hi \in {0, 1} :
        file = [inode |-> Inode_from_bytes64(
                              write_u32(Inode_to_bytes(Inode_new(3)), 140, hi),
                              InodeImageLen, 3).v,
                position |-> 0]

AfterInode(op, inode, r, image) ==
    /\ nops < MaxInodeOps
    /\ file' = [file EXCEPT !.inode = inode]
    /\ ret' = r
    /\ hist' = [op |-> op, image |-> image]
    /\ nops' = nops + 1
    /\ UNCHANGED <<fsVars, iter, bitmap, journal>>

\* inode.size = offset of File::write, self.inode.size = new_size of
\* File::truncate
InodeSetSize == \E size \in InodeSizes :
    AfterInode("set_size", [file.inode EXCEPT !.size = size], ret, hist.image)

\* assignments to the public fields
InodeSetFields == \E f \in InodeFields : \E mode \in InodeModes :
    AfterInode("set_fields",
               [file.inode EXCEPT !.uid = f[1], !.gid = f[2],
                                  !.links_count = f[3], !.flags = f[4],
                                  !.blocks = f[5], !.mode = mode],
               ret, hist.image)

\* inode.block[i] = p
InodeSetBlock == \E i \in {0, 12, 14} : \E p \in InodePointers :
    AfterInode("set_block", [file.inode EXCEPT !.block[i] = p], ret,
               hist.image)

\* Inode::from_bytes(&inode.to_bytes(), ino)
InodeRoundTrip ==
    AfterInode("round_trip", file.inode,
               Inode_from_bytes64(Inode_to_bytes64(file.inode).m,
                                  Inode_to_bytes64(file.inode).len,
                                  file.inode.ino),
               Inode_to_bytes64(file.inode))

NextInode ==
    \/ InodeSetSize
    \/ InodeSetFields
    \/ InodeSetBlock
    \/ InodeRoundTrip

SpecInode == InitInode /\ [][NextInode]_vars

\* C14: to_bytes gives 256 bytes with uid, the low word of the size, gid,
\* links_count and the 15 block pointers at their offsets, and from_bytes of
\* that image returns the mode, uid, gid, 64-bit size, links_count, blocks,
\* flags and 15 block pointers of the original inode.
C14_InodeRoundTrip ==
    hist.op = "round_trip" =>
        /\ hist.image.len = 256
        /\ read_u16(hist.image.m, 2) = file.inode.uid
        /\ read_u32(hist.image.m, 4) = file.inode.size.lo
        /\ read_u16(hist.image.m, 24) = file.inode.gid
        /\ read_u16(hist.image.m, 26) = file.inode.links_count
        /\ \A i \in 0 .. 14 :
              read_u32(hist.image.m, 40 + 4 * i) = file.inode.block[i]
        /\ ret.st = "ok"
        /\ ret.v.mode = file.inode.mode
        /\ ret.v.uid = file.inode.uid
        /\ ret.v.gid = file.inode.gid
        /\ ret.v.size = file.inode.size
        /\ ret.v.links_count = file.inode.links_count
        /\ ret.v.blocks = file.inode.blocks
        /\ ret.v.flags = file.inode.flags
        /\ ret.v.block = file.inode.block

\* an inode with changed fields and block pointers came back equal
C14_Witness ==
    /\ hist.op = "round_trip"
    /\ ret.st = "ok"
    /\ ret.v = file.inode
    /\ file.inode.uid = 1000
    /\ file.inode.block[12] = 7


-----------------------------------------------------------------------------
(* Specification SpecWide: File::write and seeks on a file whose position
   and size are u64 values, pairs of 32-bit words.  The low words of the
   run stay below 2^30, so no sum carries into the high word. *)

\* x + n
U64Add(x, n) == U64(x.hi, x.lo + n)

\* a.checked_add(b)
U64Sum(a, b) == U64(a.hi + b.hi, a.lo + b.lo)

\* a > b
U64Gt(a, b) == a.hi > b.hi \/ (a.hi = b.hi /\ a.lo > b.lo)

\* x / block_size and x % block_size, block_size a power of two from 1024
U64Div(x, block_size) ==
    x.hi * (4194304 \div (block_size \div 1024)) + x.lo \div block_size

U64Mod(x, block_size) == x.lo % block_size

\* the inode as to_bytes sees it: self.size as u32
Narrow(inode) == [inode EXCEPT !.size = inode.size.lo]

\* Ext4FileSystem::get_inode, the size a u64
get_inode64(fs, ino) ==
    LET r == get_inode(fs, ino)
    IN  IF ~IsOk(r) THEN r
        ELSE Ok([r.v EXCEPT !.size = U64(r.v.size_high, r.v.size)])

\* File::seek
seek64(f, offset) ==
    IF U64Gt(offset, f.inode.size) THEN WithFile(Err("InvalidInput"), f)
    ELSE WithFile(Ok(offset), [f EXCEPT !.position = offset])

\* File::seek_from_end with offset >= 0
seek_from_end64(f, offset) ==
    WithFile(Ok(U64Sum(f.inode.size, offset)),
             [f EXCEPT !.position = U64Sum(f.inode.size, offset)])

RECURSIVE WriteLoop64(_, _, _, _, _, _)

\* one round of the loop of File::write, into the block block_num
write_into64(f, fs1, buf, bytes_written, offset, inode1, block_num) ==
    LET block_size == fs1.superblock.block_size
        block_offset == U64Mod(offset, block_size)
        remaining_in_block ==
            Min(block_size - block_offset, buf.len - bytes_written)
        Written(w) ==
            IF ~IsOk(w) THEN WithFileDev(w, w.dev, f)
            ELSE WriteLoop64(f, WithDevice(fs1, w.dev), buf,
                             bytes_written + remaining_in_block,
                             U64Add(offset, remaining_in_block), inode1)
        Fill(old) ==
            Written(write_block(fs1, block_num,
                        Splice(IF (block_offset > 0
                                      \/ remaining_in_block < block_size)
                                  /\ IsOk(old)
                               THEN old.v ELSE EmptyBytes,
                               block_offset, remaining_in_block,
                               Slice(buf.m, bytes_written, remaining_in_block)),
                        block_size))
    IN  Fill(read_block(fs1, block_num, block_size))

\* File::write: the block of the round, found or newly allocated
write_block_num64(f, fs, buf, bytes_written, offset, inode, found, new_block) ==
    LET Set(set) ==
            IF ~IsOk(set) THEN WithFileDev(set, set.dev, f)
            ELSE write_into64(f, WithDevice(fs, set.dev), buf, bytes_written,
                              offset, set.inode, new_block.v)
    IN  IF found.st = "panic" THEN WithFileDev(found, fs.device, f)
        ELSE IF IsOk(found) /\ found.v # 0
                /\ found.v < fs.superblock.blocks_count
        THEN write_into64(f, fs, buf, bytes_written, offset, inode, found.v)
        ELSE IF ~IsOk(new_block) THEN WithFileDev(new_block, fs.device, f)
        ELSE Set(set_block(inode, U64Div(offset, fs.superblock.block_size),
                           new_block.v, fs.superblock.block_size, fs))

\* File::write after its loop: fs.write_inode(&inode), self.inode = inode
write_finish64(f, fs, bytes_written, offset, final) ==
    LET Saved(wi) ==
            IF ~IsOk(wi)
            THEN WithFileDev(wi, wi.dev, [f EXCEPT !.position = offset])
            ELSE WithFileDev(Ok(bytes_written), wi.dev,
                             [inode |-> final, position |-> offset])
    IN  Saved(write_inode(fs, Narrow(final)))

\* the loop of File::write, and "Update file size if needed"
WriteLoop64(f, fs, buf, bytes_written, offset, inode) ==
    IF bytes_written >= buf.len
    THEN write_finish64(f, fs, bytes_written, offset,
             IF U64Gt(offset, inode.size)
             THEN [inode EXCEPT
                       !.size = offset,
                       !.blocks = U64Div(
                           U64Add(offset, fs.superblock.block_size - 1),
                           fs.superblock.block_size)]
             ELSE inode)
    ELSE write_block_num64(f, fs, buf, bytes_written, offset, inode,
             get_block_number_at(inode,
                 U64Div(offset, fs.superblock.block_size),
                 fs.superblock.block_size, fs),
             alloc_block(fs))

\* File::write of the bytes buf
File_write64(f, buf, fs) == WriteLoop64(f, fs, buf, 0, f.position, f.inode)

\* operations of a run
MaxWideOps == 3

\* offsets sought: within a block, in the singly indirect range, at 2^32
WideOffsets == {U64(0, 0), U64(0, 5), U64(0, 12288), U64(1, 0)}

WideBufs == {Buf(n, [i \in 0 .. n - 1 |-> 7]) : n \in {0, 4, 1030}}

WideLogs == {0, 1}

InitWide ==
    /\ overflow_checks = FALSE
    /\ \E log \in WideLogs :
        Mounted(Image(GoodGeom(log, FALSE), {TruncInode}, EmptyBytes), FALSE)
    /\ file = [inode |-> [TruncInode EXCEPT !.size = U64(0, 0)],
               position |-> U64(0, 0)]
    /\ iter = NoIter
    /\ bitmap = NoBitmap
    /\ journal = NoJournal
    /\ ret = [op |-> "new", arg |-> 0, st |-> "ok", err |-> "", v |-> 0]
    /\ hist = [size |-> U64(0, 0), position |-> U64(0, 0)]
    /\ nops = 0

\* the state after op(arg) returned r; hist keeps the size and the
\* position before the call
AfterWide(op, arg, r, dev) ==
    /\ nops < MaxWideOps
    /\ device' = dev
    /\ file' = r.file
    /\ ret' = [op |-> op, arg |-> arg, st |-> r.st, err |-> r.err, v |-> r.v]
    /\ hist' = [size |-> file.inode.size, position |-> file.position]
    /\ nops' = nops + 1
    /\ UNCHANGED <<overflow_checks, superblock, block_groups, mount_options,
                   mounted, iter, bitmap, journal>>

WideSeek == \E offset \in WideOffsets :
    AfterWide("seek", offset, seek64(file, offset), device)

WideSeekFromEnd == \E offset \in WideOffsets :
    AfterWide("seek_from_end", offset, seek_from_end64(file, offset), device)

AfterWideWrite(buf, r) == AfterWide("write", buf.len, r, r.dev)

WideWrite == \E buf \in WideBufs :
    AfterWideWrite(buf, File_write64(file, buf, Fs))

NextWide == WideSeek \/ WideSeekFromEnd \/ WideWrite

SpecWide == InitWide /\ [][NextWide]_vars

\* the inode the device holds for the file
WideStored == get_inode64(Fs, file.inode.ino)

\* C15: when write(buf) returns Ok(n), n = len(buf), the position advanced
\* by n, size = max(old size, new position), a grown size comes with
\* blocks = ceil(size / block_size), and the inode written to the device
\* carries that size and the block pointers used for the write.
C15_WriteUpdatesAndStoresInode ==
    (ret.op = "write" /\ ret.st = "ok") =>
        /\ ret.v = ret.arg
        /\ file.position = U64Add(hist.position, ret.arg)
        /\ file.inode.size = IF U64Gt(file.position, hist.size)
                             THEN file.position ELSE hist.size
        /\ U64Gt(file.inode.size, hist.size) =>
              file.inode.blocks =
                  U64Div(U64Add(file.inode.size, superblock.block_size - 1),
                         superblock.block_size)
        /\ WideStored.st = "ok"
        /\ WideStored.v.size = file.inode.size
        /\ WideStored.v.block = file.inode.block

\* a write that crossed a block boundary grew the file, and the device
\* holds the new size and pointers
C15_Witness ==
    /\ ret.op = "write" /\ ret.st = "ok"
    /\ ret.arg = 1030
    /\ hist.size = U64(0, 4)
    /\ file.inode.size = U64(0, 1030)
    /\ WideStored.v.size = file.inode.size
    /\ WideStored.v.block = file.inode.block
    /\ file.inode.block[0] # 0


-----------------------------------------------------------------------------
(* Specification SpecSet: Inode::set_block on an empty file of a writable
   mount with traditional mapping, the indirect blocks allocated by the
   calls *)

\* calls of set_block in a run
MaxSetOps == 2

\* pointers per block of the image
SetPpb == ImgBlockSize(GoodGeom(0, FALSE)) \div 4

\* logical indexes: direct, singly, doubly and triply indirect, two of each
SetIndexes ==
    {0, 11, 12, 13, 12 + SetPpb, 12 + SetPpb + SetPpb + 1,
     12 + SetPpb + SetPpb * SetPpb, 12 + SetPpb + SetPpb * SetPpb + SetPpb + 1}

\* block numbers set: free blocks of the image, 0 < p < blocks_count
SetBlocks == {ImgFirstFree(GoodGeom(0, FALSE)) + 1,
              ImgFirstFree(GoodGeom(0, FALSE)) + 2}

\* get_block_number(li * block_size) for the logical indexes of the run
SetLookup(inode, fs) ==
    [li \in SetIndexes |->
        get_block_number(inode, li * fs.superblock.block_size,
                         fs.superblock.block_size, fs)]

InitSet ==
    /\ overflow_checks = FALSE
    /\ Mounted(Image(GoodGeom(0, FALSE), {TruncInode}, EmptyBytes), FALSE)
    /\ file = File_new(TruncInode)
    /\ iter = NoIter
    /\ bitmap = NoBitmap
    /\ journal = NoJournal
    /\ ret = [op |-> "new", li |-> 0, p |-> 0, st |-> "ok", err |-> ""]
    /\ hist = [before |-> SetLookup(TruncInode, Fs)]
    /\ nops = 0

\* the state after set_block(li, p) returned r; hist keeps the mapping
\* before the call
AfterSetBlock(li, p, r) ==
    /\ device' = r.dev
    /\ file' = [file EXCEPT !.inode = r.inode]
    /\ ret' = [op |-> "set_block", li |-> li, p |-> p, st |-> r.st,
               err |-> r.err]
    /\ hist' = [before |-> SetLookup(file.inode, Fs)]
    /\ nops' = nops + 1
    /\ UNCHANGED <<overflow_checks, superblock, block_groups, mount_options,
                   mounted, iter, bitmap, journal>>

SetBlock ==
    /\ nops < MaxSetOps
    /\ \E li \in SetIndexes : \E p \in SetBlocks :
        AfterSetBlock(li, p,
            set_block(file.inode, li, p, superblock.block_size, Fs))

NextSet == SetBlock

SpecSet == InitSet /\ [][NextSet]_vars

\* C17: with traditional mapping, after set_block(li, p) succeeded with
\* 0 < p < blocks_count, get_block_number(li * block_size) returns p and
\* every other logical index maps as before the call, in the direct and the
\* three indirect ranges, the indirect blocks allocated during the call.
C17_SetBlockMirrorsGetBlockNumber ==
    (ret.op = "set_block" /\ ret.st = "ok") =>
        /\ SetLookup(file.inode, Fs)[ret.li] = Ok(ret.p)
        /\ \A li \in SetIndexes \ {ret.li} :
              SetLookup(file.inode, Fs)[li] = hist.before[li]

\* a pointer set in the singly indirect range, block[12] allocated by the
\* call, is found again
C17_Witness ==
    /\ ret.op = "set_block" /\ ret.st = "ok"
    /\ ret.li = 13
    /\ nops = 1
    /\ file.inode.block[12] # 0
    /\ SetLookup(file.inode, Fs)[13] = Ok(ret.p)
    /\ SetLookup(file.inode, Fs)[12] = Ok(0)


-----------------------------------------------------------------------------
(* Specification SpecStore: Ext4FileSystem::write_inode on images with
   128-byte and with 256-byte inodes *)

\* calls of write_inode in a run
MaxStoreOps == 2

\* s_inode_size of the images
StoreInodeSizes == {128, 256}

\* the inodes written: two of the table and one beyond it, with sizes,
\* a block pointer and a project id set or not
StoreInodes ==
    {[Inode_new(ino) EXCEPT !.size = size, !.block[0] = b, !.projid = projid] :
        ino \in {3, 4, ImgInodes + 1}, size \in {0, 1030}, b \in {0, 9},
        projid \in {0, 7}}

InitStore ==
    /\ overflow_checks = FALSE
    /\ \E inode_size \in StoreInodeSizes :
        Mounted(Image([GoodGeom(0, FALSE) EXCEPT !.inode_size = inode_size],
                      {TruncInode, [Inode_new(4) EXCEPT !.uid = 1000]},
                      EmptyBytes), FALSE)
    /\ file = NoFile
    /\ iter = NoIter
    /\ bitmap = NoBitmap
    /\ journal = NoJournal
    /\ ret = [op |-> "new", st |-> "ok", err |-> ""]
    /\ hist = [inode |-> TruncInode, before |-> NoFs]
    /\ nops = 0

\* the state after write_inode(inode) returned r; hist keeps the inode and
\* the device before the call
AfterWriteInode(inode, r) ==
    /\ device' = r.dev
    /\ ret' = [op |-> "write_inode", st |-> r.st, err |-> r.err]
    /\ hist' = [inode |-> inode, before |-> device]
    /\ nops' = nops + 1
    /\ UNCHANGED <<overflow_checks, superblock, block_groups, mount_options,
                   mounted, file, iter, bitmap, journal>>

WriteInode ==
    /\ nops < MaxStoreOps
    /\ ret.st # "panic"
    /\ \E inode \in StoreInodes : AfterWriteInode(inode, write_inode(Fs, inode))

NextStore == WriteInode

SpecStore == InitStore /\ [][NextStore]_vars

\* the block of the inode table that holds inode ino
StoreBlock(ino) == inode_location(Fs, ino).v.block

\* C18: for inode sizes 128 and 256, write_inode(i) of an inode of the
\* table succeeds, get_inode(i.ino) then returns i's fields, and every
\* other inode of the table and every other block of the device is as it
\* was.
C18_WriteInodeInvertsGetInode ==
    (ret.op = "write_inode" /\ hist.inode.ino \in 1 .. ImgInodes) =>
        /\ ret.st = "ok"
        /\ get_inode(Fs, hist.inode.ino) = Ok(hist.inode)
        /\ \A ino \in (1 .. ImgInodes) \ {hist.inode.ino} :
              get_inode(Fs, ino) = get_inode(WithDevice(Fs, hist.before), ino)
        /\ \A b \in (0 .. device.num_blocks - 1) \ {StoreBlock(hist.inode.ino)} :
              DevBlock(device, b) = DevBlock(hist.before, b)

\* an inode with a size and a block pointer was written over inode 4 and
\* read back, inode 3 beside it untouched
C18_Witness ==
    /\ ret.op = "write_inode" /\ ret.st = "ok"
    /\ hist.inode.ino = 4 /\ hist.inode.size = 1030 /\ hist.inode.block[0] = 9
    /\ get_inode(Fs, 4) = Ok(hist.inode)
    /\ get_inode(Fs, 3) = Ok(TruncInode)
    /\ StoreBlock(3) = StoreBlock(4)
    /\ device # hist.before


-----------------------------------------------------------------------------
(* Specification SpecAlloc: alloc_block and alloc_inode on a writable
   mount, between writes to the two bitmap blocks *)

\* operations of a run
MaxAllocOps == 3

AllocLogs == {0, 2}

\* a bitmap block with the bits 0 .. n - 1 set (n < 31)
AllBits(n) == PutFields(<< <<0, 4, Pow2(n) - 1>> >>)

\* bits set in the block bitmap by a write: as in the image, two more, and
\* every block of the file system
AllocBlockBits(g) == {ImgFirstFree(g), ImgFirstFree(g) + 2, ImgBlocks}

\* bits set in the inode bitmap by a write
AllocInodeBits == {2, 3, ImgInodes}

\* nothing returned yet since the bitmap was written
NoAlloc == <<>>

InitAlloc ==
    /\ overflow_checks = FALSE
    /\ \E log \in AllocLogs :
        /\ Mounted(Image(GoodGeom(log, FALSE), {}, EmptyBytes), FALSE)
        /\ hist = [geom |-> GoodGeom(log, FALSE),
                   before |-> [device |-> Image(GoodGeom(log, FALSE), {},
                                                EmptyBytes),
                               block_groups |-> <<>>, superblock |-> NoFs],
                   blocks |-> NoAlloc, inodes |-> NoAlloc]
    /\ file = NoFile
    /\ iter = NoIter
    /\ bitmap = NoBitmap
    /\ journal = NoJournal
    /\ ret = Returned("new", Ok(0))
    /\ nops = 0

\* the file system before a call, for hist
AllocBefore ==
    [device |-> device, block_groups |-> block_groups,
     superblock |-> superblock]

\* the state after an operation returned r and left the device dev; blocks
\* and inodes are the results of the allocators since the last write to
\* their bitmap
AfterAlloc(op, r, dev, blocks, inodes) ==
    /\ nops < MaxAllocOps
    /\ device' = dev
    /\ ret' = Returned(op, r)
    /\ hist' = [hist EXCEPT !.before = AllocBefore, !.blocks = blocks,
                            !.inodes = inodes]
    /\ nops' = nops + 1
    /\ UNCHANGED <<overflow_checks, superblock, block_groups, mount_options,
                   mounted, file, iter, bitmap, journal>>

AllocBlock ==
    AfterAlloc("alloc_block", alloc_block(Fs), alloc_block_device(Fs),
               <<alloc_block(Fs)>>, hist.inodes)

AllocInode ==
    AfterAlloc("alloc_inode", alloc_inode(Fs), alloc_inode_device(Fs),
               hist.blocks, <<alloc_inode(Fs)>>)

AfterAllocWrite(op, w, blocks, inodes) ==
    AfterAlloc(op, [st |-> w.st, err |-> w.err, v |-> w.v], w.dev, blocks,
               inodes)

\* write_block of a new block bitmap of group 0
AllocWriteBlockBitmap == \E n \in AllocBlockBits(hist.geom) :
    AfterAllocWrite("write_block_bitmap",
        write_block(Fs, block_groups[1].block_bitmap, AllBits(n),
                    superblock.block_size),
        NoAlloc, hist.inodes)

\* write_block of a new inode bitmap of group 0
AllocWriteInodeBitmap == \E n \in AllocInodeBits :
    AfterAllocWrite("write_inode_bitmap",
        write_block(Fs, block_groups[1].inode_bitmap, AllBits(n),
                    superblock.block_size),
        hist.blocks, NoAlloc)

NextAlloc ==
    \/ AllocBlock
    \/ AllocInode
    \/ AllocWriteBlockBitmap
    \/ AllocWriteInodeBitmap

SpecAlloc == InitAlloc /\ [][NextAlloc]_vars

\* C21: alloc_block and alloc_inode leave every device block, the
\* descriptors and the superblock as they were, and a call returns what the
\* call before it returned when the bitmap block was not written in between.
C21_AllocatorsChangeNothing ==
    /\ ret.op \in {"alloc_block", "alloc_inode"} =>
          /\ device = hist.before.device
          /\ block_groups = hist.before.block_groups
          /\ superblock = hist.before.superblock
    /\ Len(hist.blocks) = 1 =>
          alloc_block(Fs) = hist.blocks[1]
    /\ Len(hist.inodes) = 1 =>
          alloc_inode(Fs) = hist.inodes[1]

\* alloc_block returned a block and the next alloc_block returns it again
C21_Witness ==
    /\ ret.op = "alloc_block" /\ ret.st = "ok"
    /\ Len(hist.blocks) = 1 /\ hist.blocks[1].st = "ok"
    /\ alloc_block(Fs).v = ret.v
    /\ ret.v = ImgFirstFree(hist.geom)
    /\ device = hist.before.device

\* the bits of group 0's block bitmap that stand for a block of the file
\* system and are clear
FreeBlockBits ==
    {bit \in 0 .. Min(superblock.blocks_per_group, superblock.blocks_count) - 1 :
        ~is_set(DevBlock(device, block_groups[1].block_bitmap), bit)}

\* the bits of group 0's inode bitmap that stand for an inode and are clear
FreeInodeBits ==
    {bit \in 0 .. Min(superblock.inodes_per_group, superblock.inodes_count) - 1 :
        ~is_set(DevBlock(device, block_groups[1].inode_bitmap), bit)}

\* C29: alloc_block returns Ok(b) only with the chosen bit below
\* blocks_per_group and b < blocks_count, alloc_inode returns Ok(n) only
\* with the bit below inodes_per_group and 1 <= n <= inodes_count, and with
\* no free bit in range the result is NoSpaceLeft.
C29_AllocatorResultsInRange ==
    /\ ret.op = "alloc_block" =>
          /\ ret.st = "ok" =>
                /\ ret.v < superblock.blocks_per_group
                /\ ret.v < superblock.blocks_count
          /\ FreeBlockBits = {} => ret.st = "err" /\ ret.err = "NoSpaceLeft"
    /\ ret.op = "alloc_inode" =>
          /\ ret.st = "ok" =>
                /\ ret.v - 1 < superblock.inodes_per_group
                /\ ret.v >= 1 /\ ret.v <= superblock.inodes_count
          /\ FreeInodeBits = {} => ret.st = "err" /\ ret.err = "NoSpaceLeft"

\* alloc_inode returned the one free inode of a bitmap written with three
\* bits set
C29_Witness ==
    /\ ret.op = "alloc_inode" /\ ret.st = "ok"
    /\ ret.v = 4
    /\ FreeInodeBits # {} /\ 2 \notin FreeInodeBits


-----------------------------------------------------------------------------
(* The block bitmap against block usage, in the runs of Spec *)

\* the inodes in use: the root and what the creates returned
UsedInodes == {EXT4_ROOT_INO} \cup {x.ino : x \in hist.files \cup hist.dirs}

\* block b holds the superblock, the descriptors, a bitmap or the inode
\* table
IsMetadata(b) == b < ImgRootBlock(hist.geom)

\* block b is one of the first four blocks of inode ino of fs
IsReferenced(fs, ino, b) ==
    /\ IsOk(get_inode(fs, ino))
    /\ \E index \in 0 .. 3 :
          get_block_number_at(get_inode(fs, ino).v, index,
                              fs.superblock.block_size, fs) = Ok(b)

\* bit b of group 0's block bitmap is set exactly when block
\* b + first_data_block is metadata or referenced by an inode of inos
BlockBitmapAgrees(fs, inos) ==
    \A b \in 0 .. fs.superblock.blocks_count - fs.superblock.first_data_block - 1 :
        is_set(DevBlock(fs.device, fs.block_groups[1].block_bitmap), b)
            <=> \/ IsMetadata(b + fs.superblock.first_data_block)
                \/ \E ino \in inos :
                      IsReferenced(fs, ino, b + fs.superblock.first_data_block)

\* the file system as it was mounted
FsAtMount == WithDevice(Fs, Image(hist.geom, {}, EmptyBytes))

\* C22: on an image whose block bitmap agrees with block usage, bit b of
\* the block bitmap is 1 if and only if block b + first_data_block is
\* metadata or referenced by an inode, after every sequence of creates.
C22_BlockBitmapMatchesUsage ==
    (Alive /\ BlockBitmapAgrees(FsAtMount, {EXT4_ROOT_INO}))
        => BlockBitmapAgrees(Fs, UsedInodes)

\* create_dir gave a new directory its block on an image whose bitmap
\* agreed with block usage
C22_Witness ==
    /\ JustCreated /\ ret.op = "create_dir"
    /\ BlockBitmapAgrees(FsAtMount, {EXT4_ROOT_INO})
    /\ ret.v # EXT4_ROOT_INO
    /\ \E b \in 1 .. superblock.blocks_count - 1 :
          /\ IsReferenced(Fs, ret.v, b)
          /\ ~IsReferenced(FsAtMount, EXT4_ROOT_INO, b)


-----------------------------------------------------------------------------
(* journal.rs: the Journal and its transactions. The variable journal holds
   the Journal object in obj and the static COUNTER of
   generate_transaction_id in COUNTER. *)

\* current_transaction: None
NoTransaction == [some |-> FALSE]

\* Journal::new
Journal_new(journal_inum, journal_size, journal_block_size) ==
    [journal_inum |-> journal_inum, journal_size |-> journal_size,
     journal_block_size |-> journal_block_size,
     max_transaction_size |-> journal_size \div 4,
     current_transaction |-> NoTransaction]

\* a result together with the journal the call leaves
WithJournal(r, j) == r @@ [journal |-> j]

\* Journal::generate_transaction_id: the result is the COUNTER, which is
\* then incremented
generate_transaction_id(j) ==
    WithJournal(Ok(j.COUNTER), [j EXCEPT !.COUNTER = @ + 1])

\* Journal::begin_transaction
begin_transaction(j) ==
    LET id == generate_transaction_id(j)
    IN  IF j.obj.current_transaction.some
        THEN WithJournal(Err("InvalidInput"), j)
        ELSE WithJournal(Ok(id.v),
                 [id.journal EXCEPT !.obj.current_transaction =
                     [some |-> TRUE, id |-> id.v, blocks |-> <<>>,
                      state |-> "Running"]])

\* an add_block that pushes whatever the transaction holds (a variant
\* add_block is compared with)
add_block_unbounded(j, block_num, data, block_type) ==
    IF ~j.obj.current_transaction.some
    THEN WithJournal(Err("InvalidInput"), j)
    ELSE WithJournal(Ok(0),
             [j EXCEPT !.obj.current_transaction.blocks =
                 Append(@, [block_num |-> block_num, data |-> data,
                            block_type |-> block_type])])

\* Journal::add_block
add_block(j, block_num, data, block_type) ==
    LET transaction == j.obj.current_transaction
    IN  IF ~transaction.some THEN WithJournal(Err("InvalidInput"), j)
        ELSE IF transaction.state # "Running"
        THEN WithJournal(Err("InvalidInput"), j)
        ELSE IF Len(transaction.blocks) >= j.obj.max_transaction_size
        THEN WithJournal(Err("NoSpaceLeft"), j)
        ELSE WithJournal(Ok(0),
                 [j EXCEPT !.obj.current_transaction.blocks =
                     Append(@, [block_num |-> block_num, data |-> data,
                                block_type |-> block_type])])

\* Journal::commit_transaction: the state goes to Committing, then to
\* Committed, and the transaction is dropped; _fs is not used
commit_transaction(j, fs) ==
    LET transaction == j.obj.current_transaction
    IN  IF ~transaction.some THEN WithJournal(Err("InvalidInput"), j)
        ELSE IF transaction.state # "Running"
        THEN WithJournal(Err("InvalidInput"), j)
        ELSE WithJournal(Ok(0),
                 [j EXCEPT !.obj.current_transaction = NoTransaction])

\* Journal::abort_transaction
abort_transaction(j) ==
    LET transaction == j.obj.current_transaction
    IN  IF ~transaction.some THEN WithJournal(Err("InvalidInput"), j)
        ELSE IF transaction.state # "Running"
        THEN WithJournal(Err("InvalidInput"), j)
        ELSE WithJournal(Ok(0),
                 [j EXCEPT !.obj.current_transaction = NoTransaction])

-----------------------------------------------------------------------------
(* Specification SpecJournal: the transactions of one Journal *)

\* operations of a run
MaxJournalOps == 5

\* journal_size: no room for a block, room for one, room for two
JournalSizes == {3, 4, 9}

JournalBlockNums == {7, 8}

BlockTypes == {"Data", "Revoke"}

InitJournal ==
    /\ overflow_checks = FALSE
    /\ Unmounted
    /\ file = NoFile
    /\ iter = NoIter
    /\ bitmap = NoBitmap
    /\ \E journal_size \in JournalSizes :
        /\ journal = [obj |-> Journal_new(8, journal_size, 1024), COUNTER |-> 1]
        /\ hist = [before |-> [obj |-> Journal_new(8, journal_size, 1024),
                               COUNTER |-> 1]]
    /\ ret = Returned("new", Ok(0))
    /\ nops = 0

\* the state after a call on the journal returned r
AfterJournal(op, r) ==
    /\ nops < MaxJournalOps
    /\ journal' = r.journal
    /\ ret' = Returned(op, r)
    /\ hist' = [before |-> journal]
    /\ nops' = nops + 1
    /\ UNCHANGED <<fsVars, file, iter, bitmap>>

JournalBegin == AfterJournal("begin_transaction", begin_transaction(journal))

JournalAddBlock == \E block_num \in JournalBlockNums, t \in BlockTypes :
    AfterJournal("add_block", add_block(journal, block_num, EmptyBuf, t))

JournalCommit ==
    AfterJournal("commit_transaction", commit_transaction(journal, Fs))

JournalAbort == AfterJournal("abort_transaction", abort_transaction(journal))

NextJournal == JournalBegin \/ JournalAddBlock \/ JournalCommit \/ JournalAbort

SpecJournal == InitJournal /\ [][NextJournal]_vars

\* a transaction is open
IsOpen(j) == j.obj.current_transaction.some

\* C24: an open transaction is in state Running; begin_transaction with one
\* open fails with InvalidInput and changes nothing; add_block, commit and
\* abort with none open fail with InvalidInput; after a successful commit
\* or abort none is open and begin_transaction succeeds; a transaction
\* never holds more than journal_size / 4 blocks, add_block failing with
\* NoSpaceLeft beyond that.
C24_OneRunningTransaction ==
    /\ IsOpen(journal) =>
          /\ journal.obj.current_transaction.state = "Running"
          /\ Len(journal.obj.current_transaction.blocks)
                <= journal.obj.journal_size \div 4
    /\ (ret.op = "begin_transaction" /\ IsOpen(hist.before)) =>
          /\ ret.st = "err" /\ ret.err = "InvalidInput"
          /\ journal = hist.before
    /\ (ret.op \in {"add_block", "commit_transaction", "abort_transaction"}
           /\ ~IsOpen(hist.before)) =>
          ret.st = "err" /\ ret.err = "InvalidInput"
    /\ (ret.op \in {"commit_transaction", "abort_transaction"}
           /\ ret.st = "ok") =>
          /\ ~IsOpen(journal)
          /\ IsOk(begin_transaction(journal))
    /\ (ret.op = "add_block" /\ IsOpen(hist.before)
           /\ Len(hist.before.obj.current_transaction.blocks)
                 >= hist.before.obj.journal_size \div 4) =>
          ret.st = "err" /\ ret.err = "NoSpaceLeft"

\* a transaction that holds journal_size / 4 = 2 blocks refused a further
\* call and was then committed
C24_Witness ==
    /\ ret.op = "commit_transaction" /\ ret.st = "ok"
    /\ IsOpen(hist.before)
    /\ Len(hist.before.obj.current_transaction.blocks) = 2
    /\ ~IsOpen(journal)
    /\ nops = MaxJournalOps


-----------------------------------------------------------------------------
(* Specification SpecType: the directory operations on inode 3, "/a", of
   each of the seven inode types *)

\* operations of a run
MaxTypeOps == 2

InodeTypes == {IFIFO, IFCHR, IFDIR, IFBLK, IFREG, IFLNK, IFSOCK}

\* block sizes 1024 and 4096
TypeLogs == {0, 2}

\* inode 3 with the type bits type, permissions 0o644 and the block of the
\* root directory as its one block
TypeInode(g, type) ==
    [Inode_new(3) EXCEPT !.mode = type + 420, !.size = ImgBlockSize(g),
                         !.blocks = 1,
                         !.block = OneBlock(g, ImgRootBlock(g))]

\* the block of the root directory: ".", ".." and "a" for inode 3
TypeRootDir(g) ==
    LET dot == entry_to_bytes_with_rec_len(
                   [ino |-> EXT4_ROOT_INO, name_len |-> 1, file_type |-> 2,
                    name |-> DOT], 12)
        dotdot == entry_to_bytes_with_rec_len(
                   [ino |-> EXT4_ROOT_INO, name_len |-> 2, file_type |-> 2,
                    name |-> DOTDOT], 12)
        a == entry_to_bytes_with_rec_len(
                   [ino |-> 3, name_len |-> 1, file_type |-> 0,
                    name |-> <<97>>], ImgBlockSize(g) - 24)
        two == Extend(dot, dotdot.m, dotdot.len)
    IN  Extend(two, a.m, a.len).m

TypeImage(g, type) ==
    Image(g, {TypeInode(g, type)},
          (ImgRootBlock(g) :> TypeRootDir(g))
              @@ (ImgInodeBitmap(g) :> LowBits(3)))

InitType ==
    /\ overflow_checks = FALSE
    /\ \E log \in TypeLogs, type \in InodeTypes :
        /\ Mounted(TypeImage(GoodGeom(log, FALSE), type), FALSE)
        /\ hist = [geom |-> GoodGeom(log, FALSE), type |-> type]
    /\ file = NoFile
    /\ iter = NoIter
    /\ bitmap = NoBitmap
    /\ journal = NoJournal
    /\ ret = Returned("new", Ok(0))
    /\ nops = 0

\* the state after an operation returned r and left the device dev
AfterType(op, r, dev) ==
    /\ Alive /\ nops < MaxTypeOps
    /\ device' = dev
    /\ ret' = Returned(op, r)
    /\ nops' = nops + 1
    /\ UNCHANGED <<overflow_checks, superblock, block_groups, mount_options,
                   mounted, file, iter, bitmap, journal, hist>>

\* find_inode("/a/d"): inode 3 is the inode of a non-final component
TypeFindInode ==
    AfterType("find_inode", find_inode(Fs, <<SLASH, 97, SLASH, 100>>), device)

TypeReadDir == AfterType("read_dir", read_dir(Fs, 3), device)

AfterTypeCreate(op, r) == AfterType(op, r, r.dev)

TypeCreateFile ==
    AfterTypeCreate("create_file", create_file(Fs, 3, <<100>>, DEFAULT_FILE))

TypeCreateDir ==
    AfterTypeCreate("create_dir", create_dir(Fs, 3, <<100>>, DEFAULT_DIR))

NextType == TypeFindInode \/ TypeReadDir \/ TypeCreateFile \/ TypeCreateDir

SpecType == InitType /\ [][NextType]_vars

\* the type nibble of inode 3 as the device holds it
TypeNibble == BitAnd(get_inode(Fs, 3).v.mode, IFMT)

\* C23: find_inode through a non-final component, read_dir, create_file
\* and create_dir fail with NotADirectory whenever the type nibble of the
\* inode to be listed differs from 0x4000.
C23_NonDirectoriesAreRefused ==
    (/\ ret.op \in {"find_inode", "read_dir", "create_file", "create_dir"}
     /\ hist.type # IFDIR)
        => ret.st = "err" /\ ret.err = "NotADirectory"

\* read_dir of the regular file "/a" was refused
C23_Witness ==
    /\ ret.op = "read_dir" /\ nops = 1
    /\ hist.type = IFREG /\ TypeNibble = IFREG
    /\ ret.st = "err" /\ ret.err = "NotADirectory"


-----------------------------------------------------------------------------
(* The length of a read against the end of the file, in the runs of
   SpecRead *)

\* C25: File::read with the cursor at p <= size and a buffer of n bytes
\* returns exactly min(n, size - p) bytes and advances the position by
\* that amount, so the position never passes the size.
C25_ReadStopsAtEndOfFile ==
    (ret.op = "read" /\ ret.st = "ok" /\ ret.from <= file.inode.size) =>
        /\ ret.v = Min(ret.len, file.inode.size - ret.from)
        /\ ret.data.len = ret.v
        /\ file.position = ret.from + ret.v
        /\ file.position <= file.inode.size

\* a read that started inside the last, partly used block of the file
C25_Witness ==
    /\ ret.op = "read" /\ ret.st = "ok"
    /\ file.inode.size = ReadShortSize
    /\ ret.from = 1000 /\ ret.len = 8 /\ ret.v = 8
    /\ file.position = 1008


-----------------------------------------------------------------------------
(* Specification SpecWrite: writes that cross block boundaries, and
   truncates, of one file on a writable mount without extents, read back
   with File::read *)

\* operations of a run
MaxWriteOps == 3

\* the buffers written: byte i of a buffer of n bytes is 1 + (i + n) % 7;
\* the long one reaches into a second block
WriteBufs ==
    {Buf(n, [i \in 0 .. n - 1 |-> 1 + ((i + n) % 7)]) : n \in {4, 1024 + 6}}

WritePositions == {0, 3}

WriteSizes == {0, 2, 1024 + 6}

\* the device at mount
WriteImage == Image(GoodGeom(0, FALSE), {TruncInode}, EmptyBytes)

\* the bytes [0, size) of f as File::read delivers them
Whole(f, fs) == File_read([f EXCEPT !.position = 0], f.inode.size, fs)

InitWrite ==
    /\ overflow_checks = FALSE
    /\ Mounted(WriteImage, FALSE)
    /\ file = File_new(TruncInode)
    /\ iter = NoIter
    /\ bitmap = NoBitmap
    /\ journal = NoJournal
    /\ ret = [op |-> "new", from |-> 0, arg |-> 0, buf |-> EmptyBuf,
              st |-> "ok", err |-> ""]
    /\ hist = [size |-> 0, before |-> Whole(File_new(TruncInode), NoFs)]
    /\ nops = 0

\* the state after op returned r; hist keeps the size and the bytes of the
\* file before the call
AfterWrite(op, arg, buf, r) ==
    /\ nops < MaxWriteOps
    /\ device' = r.dev
    /\ file' = r.file
    /\ ret' = [op |-> op, from |-> file.position, arg |-> arg, buf |-> buf,
               st |-> r.st, err |-> r.err]
    /\ hist' = [size |-> file.inode.size, before |-> Whole(file, Fs)]
    /\ nops' = nops + 1
    /\ UNCHANGED <<overflow_checks, superblock, block_groups, mount_options,
                   mounted, iter, bitmap, journal>>

WriteSeek == \E offset \in WritePositions :
    AfterWrite("seek", offset, EmptyBuf, seek(file, offset) @@ [dev |-> device])

Write == \E buf \in WriteBufs :
    AfterWrite("write", buf.len, buf, File_write(file, buf, Fs))

WriteTruncate == \E new_size \in WriteSizes :
    AfterWrite("truncate", new_size, EmptyBuf, truncate(file, new_size, Fs))

NextWrite == WriteSeek \/ Write \/ WriteTruncate

SpecWrite == InitWrite /\ [][NextWrite]_vars

\* the bytes of r at the offsets of set are those of the file before the
\* call
SameBytes(r, set) ==
    /\ IsOk(r) /\ IsOk(hist.before)
    /\ \A i \in set : Byte(r.data.m, i) = Byte(hist.before.data.m, i)

\* the bytes [from, from + buf.len) of r are those of buf
ReadsBack(r, from, buf) ==
    /\ IsOk(r)
    /\ r.data.len >= from + buf.len
    /\ \A i \in 0 .. buf.len - 1 : Byte(r.data.m, from + i) = Byte(buf.m, i)

\* C26: after File::write(buf) succeeded from position p, the bytes
\* [p, p + len(buf)) of the file read back as buf and every other byte of
\* the file reads as before the write.
C26_WriteReadRoundTrip ==
    (ret.op = "write" /\ ret.st = "ok") =>
        /\ ReadsBack(Whole(file, Fs), ret.from, ret.buf)
        /\ SameBytes(Whole(file, Fs),
               {i \in 0 .. hist.size - 1 :
                   i < ret.from \/ i >= ret.from + ret.buf.len})

\* a write inside the first block of a file that held bytes before and
\* behind the range written
C26_Witness ==
    /\ ret.op = "write" /\ ret.st = "ok"
    /\ ret.from = 3 /\ ret.buf.len = 4
    /\ hist.size > 1024
    /\ ReadsBack(Whole(file, Fs), ret.from, ret.buf)

\* C27: after File::truncate(new_size) succeeded with new_size above the
\* old size, every byte in [0, old size) of the file reads as before the
\* call, and so does the root directory.
C27_GrowingKeepsData ==
    (ret.op = "truncate" /\ ret.st = "ok" /\ ret.arg > hist.size) =>
        /\ SameBytes(Whole(file, Fs), 0 .. hist.size - 1)
        /\ read_dir(Fs, EXT4_ROOT_INO)
              = read_dir(WithDevice(Fs, WriteImage), EXT4_ROOT_INO)

\* a truncate enlarged a file whose bytes had been written to a block
\* obtained from alloc_block
C27_Witness ==
    /\ ret.op = "truncate" /\ ret.st = "ok" /\ ret.arg > hist.size
    /\ hist.size > 0 /\ IsOk(hist.before)
    /\ \E i \in 0 .. hist.size - 1 : Byte(hist.before.data.m, i) # 0
    /\ file.inode.block[0] = ImgFirstFree(GoodGeom(0, FALSE))


-----------------------------------------------------------------------------
(* Termination of the extent-tree lookup, in the runs of SpecMap *)

\* C30: the extent-tree lookup returns a block number or an error for
\* every device content, also when the child pointer of an index node
\* refers to the node itself or to one of its ancestors.
C30_ExtentLookupTerminates ==
    (ret.op = "get_block_number" /\ hist.extents) => ret.st \in {"ok", "err"}

\* a lookup went from the node block[0] names to an extent that covers the
\* logical block
C30_Witness ==
    /\ ret.op = "get_block_number" /\ hist.extents
    /\ hist.place = "block named by block[0]"
    /\ ret.st = "ok" /\ ret.v # 0


-----------------------------------------------------------------------------
(* The inode numbers the creates return, in the runs of Spec *)

\* what the creates of the run made
Made == hist.files \cup hist.dirs

\* C28: a successful create_file or create_dir returns an inode number
\* that was not in use: not inode 1, not the root, and not the number an
\* earlier create returned under another name; the files and directories
\* made before keep their type.
C28_CreateReturnsUnusedInode ==
    Alive =>
        /\ \A x \in Made :
              /\ x.ino \notin {1, EXT4_ROOT_INO}
              /\ \A y \in Made : x.name # y.name => x.ino # y.ino
        /\ \A d \in hist.dirs :
              /\ IsOk(get_inode(Fs, d.ino))
              /\ BitAnd(get_inode(Fs, d.ino).v.mode, IFMT) = IFDIR
        /\ \A f \in hist.files :
              /\ IsOk(get_inode(Fs, f.ino))
              /\ BitAnd(get_inode(Fs, f.ino).v.mode, IFMT) = IFREG

\* the first create of a run returned the first inode the bitmap shows
\* free
C28_Witness ==
    /\ JustCreated
    /\ ret.v = 3
    /\ Cardinality(Made) = 1
    /\ \A e \in DOMAIN hist.last.before.v : hist.last.before.v[e].ino # 3

====
